---------------------------- MODULE Spec2Model ----------------------------
(***************************************************************************)
(* Model of the go-fixtures loader: load.go (Load, LoadFile, LoadFiles,    *)
(* LoadWithContext, fixPostgresPKSequence) and the Row compiler            *)
(* (Row.Init and the Get... accessors, PrimaryKeyGenerator.Set,            *)
(* PrimaryKeyReference.Get).                                               *)
(*                                                                         *)
(* The database/sql collaborator is modelled as a set of table rows with   *)
(* snapshot transactions: Begin copies the committed contents, statements  *)
(* change the copy, Commit publishes it and Rollback drops it.  Every      *)
(* statement may fail.  Sequence state of the engine is not part of the    *)
(* contents.                                                               *)
(***************************************************************************)
EXTENDS Integers, Sequences, FiniteSets, TLC

(***************************************************************************)
(* Bounds of the model.                                                    *)
(***************************************************************************)
MaxRows == 2      \* rows of an in-memory document handed to Load
MaxFiles == 2     \* file names handed to LoadFiles
MaxKey == 2       \* keys the database can assign to generated rows
MaxLoads == 2     \* successive calls with the same input

(***************************************************************************)
(* Values (Go interface{}): every value is a record of one shape so that   *)
(* values of different dynamic type can be compared.                       *)
(*   int     a YAML integer or an int64 key                                *)
(*   str     a YAML string, kept as its tokens: an optional marker prefix, *)
(*           a body, an optional closing parenthesis                       *)
(*   nil     the untyped nil a missing map entry yields                    *)
(*   time    a time.Now() capture                                          *)
(*   gen     *PrimaryKeyGenerator{name}                                    *)
(*   ref     *PrimaryKeyReference{name}                                    *)
(***************************************************************************)
IntV(n) == [k |-> "int", n |-> n, s |-> <<>>]
StrV(toks) == [k |-> "str", n |-> 0, s |-> toks]
Nil == [k |-> "nil", n |-> 0, s |-> <<>>]
TimeNow == [k |-> "time", n |-> 0, s |-> <<>>]

onInsertNow == <<"ON_INSERT_NOW()">>
onUpdateNow == <<"ON_UPDATE_NOW()">>
onPKGeneratePrefix == "PK_GENERATE("
onPKGenerateSuffix == ")"
onPKReferencePrefix == "PK_REFERENCE("
onPKReferenceSuffix == ")"
postgresDriver == "postgres"

PrimaryKeyGenerator(name) == [k |-> "gen", n |-> 0, s |-> <<name>>]
PrimaryKeyReference(name) == [k |-> "ref", n |-> 0, s |-> <<name>>]

\* strings.HasPrefix / strings.HasSuffix on the token form of a string
HasPrefix(sv, p) == Len(sv) >= 1 /\ sv[1] = p
HasSuffix(sv, x) == Len(sv) >= 1 /\ sv[Len(sv)] = x

\* strings.TrimPrefix(strings.TrimSuffix(sv, suffix), prefix): the body
TrimBoth(sv) == IF Len(sv) = 3 THEN sv[2] ELSE ""

\* strings.TrimSpace
TrimSpace(t) == IF t = " a " THEN "a" ELSE t

\* sort.Strings: the column names the model uses, in lexicographic order
Alphabet == <<"created", "id", "name", "org", "owner", "updated">>
SortStrings(S) == SelectSeq(Alphabet, LAMBDA c : c \in S)

(***************************************************************************)
(* The key registry (Context.primaryKeys)                                  *)
(***************************************************************************)
GeneratorSetNothing(values, name, key) == values
GeneratorSetKeepsFirst(values, name, key) ==
    [x \in (DOMAIN values) \cup {name} |-> IF x \in DOMAIN values THEN values[x] ELSE key]

\* PrimaryKeyGenerator.Set: values[pk.name] = key
GeneratorSet(values, name, key) ==
    [x \in (DOMAIN values) \cup {name} |-> IF x = name THEN key ELSE values[x]]

\* PrimaryKeyReference.Get: values[pk.name]; a missing entry reads as nil
ReferenceGet(values, name) ==
    IF name \in DOMAIN values THEN values[name] ELSE Nil

\* the loop body shared by GetInsertValues, GetUpdateValues, GetPKValues
Resolve(primaryKeys, value) ==
    IF value.k = "ref" THEN ReferenceGet(primaryKeys, value.s[1]) ELSE value

(***************************************************************************)
(* Row.Init                                                                *)
(***************************************************************************)
\* the classification of one primary-key value
InitPKValue(v) ==
    IF v.k = "str" /\ HasPrefix(v.s, onPKGeneratePrefix)
                   /\ HasSuffix(v.s, onPKGenerateSuffix)
    THEN PrimaryKeyGenerator(TrimSpace(TrimBoth(v.s)))
    ELSE IF v.k = "str" /\ HasPrefix(v.s, onPKReferencePrefix)
                        /\ HasSuffix(v.s, onPKReferenceSuffix)
    THEN PrimaryKeyReference(TrimSpace(TrimBoth(v.s)))
    ELSE v

\* is the field appended to insertColumns / updateColumns
FieldInInsert(v, setUpdatedAtOnInsert) ==
    IF v.k = "str" /\ v.s = onInsertNow THEN TRUE
    ELSE IF v.k = "str" /\ v.s = onUpdateNow THEN setUpdatedAtOnInsert
    ELSE TRUE

FieldInUpdateAlways(v) == TRUE

FieldInUpdate(v) ==
    IF v.k = "str" /\ v.s = onInsertNow THEN FALSE
    ELSE TRUE

InitFieldValueKnowsGenerate(v) == InitPKValue(v)

\* the value appended for a field
InitFieldValue(v) ==
    IF v.k = "str" /\ (v.s = onInsertNow \/ v.s = onUpdateNow) THEN TimeNow
    ELSE IF v.k = "str" /\ HasPrefix(v.s, onPKReferencePrefix)
                        /\ HasSuffix(v.s, onPKReferenceSuffix)
    THEN PrimaryKeyReference(TrimSpace(TrimBoth(v.s)))
    ELSE v

RowInit(row, setUpdatedAtOnInsert) ==
    LET pkColumns == SortStrings(DOMAIN row.PK)
        fieldKeys == SortStrings(DOMAIN row.Fields)
        insertColumns ==
            SelectSeq(fieldKeys,
                      LAMBDA c : FieldInInsert(row.Fields[c], setUpdatedAtOnInsert))
        updateColumns ==
            SelectSeq(fieldKeys, LAMBDA c : FieldInUpdate(row.Fields[c]))
    IN  [Table |-> row.Table,
         pkColumns |-> pkColumns,
         pkValues |-> [i \in 1..Len(pkColumns) |-> InitPKValue(row.PK[pkColumns[i]])],
         insertColumns |-> insertColumns,
         insertValues |-> [i \in 1..Len(insertColumns) |->
                              InitFieldValue(row.Fields[insertColumns[i]])],
         updateColumns |-> updateColumns,
         updateValues |-> [i \in 1..Len(updateColumns) |->
                              InitFieldValue(row.Fields[updateColumns[i]])]]

(***************************************************************************)
(* Accessors of a compiled row.  A quoted identifier "%s" and a bare one   *)
(* are different texts; a placeholder is $n or ?.                          *)
(***************************************************************************)
Quoted(c) == [quoted |-> TRUE, name |-> c]
Bare(c) == [quoted |-> FALSE, name |-> c]

Placeholder(driver, i) ==
    IF driver = postgresDriver THEN [sym |-> "$", n |-> i]
    ELSE [sym |-> "?", n |-> 0]

GetInsertColumns(r) == [i \in 1..Len(r.insertColumns) |-> Quoted(r.insertColumns[i])]

GetInsertValues(r, primaryKeys) ==
    [i \in 1..Len(r.insertValues) |-> Resolve(primaryKeys, r.insertValues[i])]

GetInsertPlaceholders(r, driver) ==
    [i \in 1..Len(r.insertValues) |-> Placeholder(driver, i)]

GetPKAndInsertColumns(r) ==
    [i \in 1..Len(r.pkColumns) |-> Quoted(r.pkColumns[i])] \o GetInsertColumns(r)

GetPKAndInsertValuesFieldsFirst(r, primaryKeys) ==
    [i \in 1..Len(r.insertValues) |-> Resolve(primaryKeys, r.insertValues[i])]
        \o [i \in 1..Len(r.pkValues) |-> Resolve(primaryKeys, r.pkValues[i])]

GetPKAndInsertValues(r, primaryKeys) ==
    [i \in 1..Len(r.pkValues) |-> Resolve(primaryKeys, r.pkValues[i])]
        \o [i \in 1..Len(r.insertValues) |-> Resolve(primaryKeys, r.insertValues[i])]

GetPKAndInsertPlaceholdersOmitsKey(r, driver) ==
    [i \in 1..Len(r.insertValues) |-> Placeholder(driver, i)]

GetPKAndInsertPlaceholders(r, driver) ==
    [i \in 1..(Len(r.pkValues) + Len(r.insertValues)) |-> Placeholder(driver, i)]

GetUpdateColumns(r) == [i \in 1..Len(r.updateColumns) |-> Quoted(r.updateColumns[i])]

GetUpdateColumnsLength(r) == Len(GetUpdateColumns(r))

GetUpdateValues(r, primaryKeys) ==
    [i \in 1..Len(r.updateValues) |-> Resolve(primaryKeys, r.updateValues[i])]

\* "col = $n" / "col = ?" per update column
GetUpdatePlaceholders(r, driver) ==
    [i \in 1..GetUpdateColumnsLength(r) |->
        [col |-> GetUpdateColumns(r)[i], ph |-> Placeholder(driver, i)]]

GetWhereFromOne(r, driver, i) ==
    [j \in 1..Len(r.pkColumns) |->
        [col |-> Bare(r.pkColumns[j]), ph |-> Placeholder(driver, j)]]

\* the WHERE conjuncts; i is the number of placeholders already used
GetWhere(r, driver, i) ==
    [j \in 1..Len(r.pkColumns) |->
        [col |-> Bare(r.pkColumns[j]), ph |-> Placeholder(driver, i + j)]]

GetPKValues(r, primaryKeys) ==
    [i \in 1..Len(r.pkValues) |-> Resolve(primaryKeys, r.pkValues[i])]

GetPKColumns(r) == r.pkColumns


(***************************************************************************)
(* Inputs: fixture rows (table, pk, fields as the YAML mappings), the      *)
(* documents built from them and the files of the working directory.       *)
(***************************************************************************)
Fn1(a, x) == [c \in {a} |-> x]
Fn2(a, x, b, y) == [c \in {a, b} |-> IF c = a THEN x ELSE y]
NoFields == [c \in {} |-> Nil]

RowGen ==
    [Table |-> "users",
     PK |-> Fn1("id", StrV(<<"PK_GENERATE(", "a", ")">>)),
     Fields |-> Fn1("name", StrV(<<"x">>))]
RowLit ==
    [Table |-> "users",
     PK |-> Fn1("id", IntV(1)),
     Fields |-> Fn1("created", StrV(onInsertNow))]
RowRefField ==
    [Table |-> "posts",
     PK |-> Fn1("id", IntV(1)),
     Fields |-> Fn2("owner", StrV(<<"PK_REFERENCE(", "a", ")">>),
                    "updated", StrV(onUpdateNow))]
RowRefPK ==
    [Table |-> "profiles",
     PK |-> Fn1("owner", StrV(<<"PK_REFERENCE(", " a ", ")">>)),
     Fields |-> Fn1("name", StrV(<<"x">>))]
RowTwoPK ==
    [Table |-> "members",
     PK |-> Fn2("id", StrV(<<"PK_GENERATE(", "a", ")">>), "org", IntV(1)),
     Fields |-> NoFields]
RowIdField ==
    [Table |-> "teams",
     PK |-> Fn1("org", IntV(1)),
     Fields |-> Fn2("id", IntV(2), "name", StrV(<<"PK_GENERATE(", "a", ")">>))]

RowSpecs == {RowGen, RowLit, RowRefField, RowRefPK, RowTwoPK, RowIdField}

SeqsUpTo(S, n) == UNION {[1..m -> S] : m \in 0..n}

\* []byte data: a YAML document that deserialises to rows, or one that does not
Document(rows) == [ok |-> TRUE, rows |-> rows]
Malformed == [ok |-> FALSE, rows |-> <<>>]
Datas == {Document(rs) : rs \in SeqsUpTo(RowSpecs, MaxRows)} \cup {Malformed}

\* the files ioutil.ReadFile can be asked for
Unreadable == [readable |-> FALSE, data |-> Malformed]
File(d) == [readable |-> TRUE, data |-> d]
FileNames == {"users.yml", "posts.yml", "more.yml", "broken.yml", "missing.yml"}
FileSystem ==
    [f \in FileNames |->
        CASE f = "users.yml" -> File(Document(<<RowGen>>))
          [] f = "posts.yml" -> File(Document(<<RowRefField>>))
          [] f = "more.yml" -> File(Document(<<RowGen, RowRefPK>>))
          [] f = "broken.yml" -> File(Malformed)
          [] OTHER -> Unreadable]

Drivers == {postgresDriver, "mysql"}

\* what the database may hold before the first call
ExistingUser == [table |-> "users",
                 vals |-> Fn2("id", IntV(1), "name", StrV(<<"old">>))]
InitialDBs == {{}, {ExistingUser}}

(***************************************************************************)
(* Errors                                                                  *)
(***************************************************************************)
NoError == [kind |-> "nil", row |-> 0, file |-> "", cause |-> ""]
Pending == [kind |-> "pending", row |-> 0, file |-> "", cause |-> ""]
NewProcessingError(row, cause) ==
    [kind |-> "processing", row |-> row, file |-> "", cause |-> cause]
NewFileError(filename, cause) ==
    [kind |-> "file", row |-> 0, file |-> filename, cause |-> cause]
PlainError(cause) == [kind |-> "plain", row |-> 0, file |-> "", cause |-> cause]

(***************************************************************************)
(* The database collaborator (Context.Db): table contents and the effect   *)
(* of the statements on them.                                              *)
(***************************************************************************)
\* a value the driver can bind: not a pointer to a marker struct
Bindable(v) == v.k \notin {"gen", "ref"}
AllBindable(args) == \A j \in 1..Len(args) : Bindable(args[j])

\* column = argument; NULL (nil) equals nothing
Matches(r, table, cols, args) ==
    /\ r.table = table
    /\ \A j \in 1..Len(cols) :
          /\ args[j].k \in {"int", "str"}
          /\ cols[j] \in DOMAIN r.vals
          /\ r.vals[cols[j]] = args[j]

CountRows(contents, table, cols, args) ==
    Cardinality({r \in contents : Matches(r, table, cols, args)})

RowOf(table, cols, args) ==
    [table |-> table,
     vals |-> [c \in {cols[j] : j \in 1..Len(cols)} |->
                  args[CHOOSE j \in 1..Len(cols) : cols[j] = c]]]

InsertRow(contents, table, cols, args) == contents \cup {RowOf(table, cols, args)}

UpdateRows(contents, table, setCols, setArgs, pkCols, pkArgs) ==
    {IF Matches(r, table, pkCols, pkArgs)
     THEN [r EXCEPT !.vals =
             [c \in (DOMAIN r.vals) \cup {setCols[j] : j \in 1..Len(setCols)} |->
                 IF \E j \in 1..Len(setCols) : setCols[j] = c
                 THEN setArgs[CHOOSE j \in 1..Len(setCols) : setCols[j] = c]
                 ELSE r.vals[c]]]
     ELSE r : r \in contents}

\* keys the engine can still assign to column col of the table
FreeKeys(contents, table, col) ==
    {k \in 1..MaxKey :
        ~ \E r \in contents : /\ r.table = table
                              /\ col \in DOMAIN r.vals
                              /\ r.vals[col] = IntV(k)}

RolledBackKeepsWork(before, work) == work

\* tx.Commit / tx.Rollback on the contents
Committed(before, work) == work
RolledBack(before, work) == before


(***************************************************************************)
(* State                                                                   *)
(***************************************************************************)
VARIABLES
    db,           \* committed contents of the database
    txdb,         \* contents as seen inside the open transaction
    txState,      \* "none", "active", "committed", "rolledback"
    txOps,        \* release operations issued on the transaction, in order
    pc,           \* position of the call
    call,         \* entry point and arguments of the current call
    fileIdx,      \* LoadFiles: number of files read so far
    data,         \* the bytes LoadWithContext was handed
    rows,         \* the rows yaml.Unmarshal produced
    i,            \* loop index of LoadWithContext (0-based, as in the code)
    row,          \* the compiled row of the current iteration
    primaryKeys,  \* Context.primaryKeys, the key registry
    count,        \* the scanned existence count
    log,          \* statements handed to Context.Db by this call, in order
    result,       \* the value the call returns
    dbBefore,     \* committed contents when the call began
    history,      \* summaries of the earlier calls
    heap,         \* the registries (Go maps) allocated by concurrent Loads
    txs,          \* the transactions begun by concurrent Loads
    loads         \* the Load calls of the concurrent callers, one each

vars == <<db, txdb, txState, txOps, pc, call, fileIdx, data, rows, i, row,
          primaryKeys, count, log, result, dbBefore, history>>

\* the state of the concurrent callers
cvars == <<heap, txs, loads>>

\* two goroutines of the client program, each calling Load once
Callers == {"A", "B"}
NoContext == [primaryKeys |-> 0, tx |-> 0]
IdleLoad == [pc |-> "idle", data |-> Malformed, driver |-> "",
             ctx |-> NoContext, rows |-> <<>>, i |-> 0, log |-> <<>>,
             result |-> Pending]

EmptyRegistry == [x \in {} |-> Nil]
NoRow == RowInit([Table |-> "", PK |-> NoFields, Fields |-> NoFields], FALSE)
NoCall == [entry |-> "", data |-> Malformed, filenames |-> <<>>,
           driver |-> "", SetUpdatedAtOnInsert |-> FALSE]

Init ==
    /\ db \in InitialDBs
    /\ txdb = {}
    /\ txState = "none"
    /\ txOps = <<>>
    /\ pc = "idle"
    /\ call = NoCall
    /\ fileIdx = 0
    /\ data = Malformed
    /\ rows = <<>>
    /\ i = 0
    /\ row = NoRow
    /\ primaryKeys = EmptyRegistry
    /\ count = 0
    /\ log = <<>>
    /\ result = Pending
    /\ dbBefore = {}
    /\ history = <<>>
    /\ heap = <<>>
    /\ txs = <<>>
    /\ loads = [c \in Callers |-> IdleLoad]

(***************************************************************************)
(* Statements as handed to the database                                    *)
(***************************************************************************)
Statement(kind, path, cols, ph, set, where, returning, raw, args, ok, ret) ==
    [file |-> fileIdx, row |-> i + 1, kind |-> kind, path |-> path,
     name |-> IF path = "generated" THEN row.pkValues[1].s[1] ELSE "",
     table |-> row.Table, cols |-> cols, ph |-> ph, set |-> set,
     where |-> where, returning |-> returning, raw |-> raw, args |-> args,
     ok |-> ok, ret |-> ret]

\* INSERT INTO "t"(GetInsertColumns) VALUES(GetInsertPlaceholders) [RETURNING pk]
GeneratedInsertQuery(ok, ret) ==
    Statement("INSERT", "generated",
              GetInsertColumns(row), GetInsertPlaceholders(row, call.driver),
              <<>>, <<>>,
              IF call.driver = "postgres" THEN <<Bare(GetPKColumns(row)[1])>> ELSE <<>>,
              row.insertValues, GetInsertValues(row, primaryKeys), ok, ret)

\* SELECT COUNT(*) FROM "t" WHERE GetWhere(driver, 0)
SelectQuery(ok, ret) ==
    Statement("SELECT", "existence", <<>>, <<>>, <<>>,
              GetWhere(row, call.driver, 0), <<>>,
              row.pkValues, GetPKValues(row, primaryKeys), ok, ret)

\* INSERT INTO "t"(GetPKAndInsertColumns) VALUES(GetPKAndInsertPlaceholders)
InsertQuery(ok) ==
    Statement("INSERT", "existence",
              GetPKAndInsertColumns(row),
              GetPKAndInsertPlaceholders(row, call.driver),
              <<>>, <<>>, <<>>,
              row.pkValues \o row.insertValues,
              GetPKAndInsertValues(row, primaryKeys), ok, 0)

UpdateQueryKeysFirst(ok) ==
    Statement("UPDATE", "existence", <<>>, <<>>,
              GetUpdatePlaceholders(row, call.driver),
              GetWhere(row, call.driver, GetUpdateColumnsLength(row)), <<>>,
              row.pkValues \o row.updateValues,
              GetPKValues(row, primaryKeys) \o GetUpdateValues(row, primaryKeys),
              ok, 0)

\* UPDATE "t" SET GetUpdatePlaceholders WHERE GetWhere(driver, updateLength)
UpdateQuery(ok) ==
    Statement("UPDATE", "existence", <<>>, <<>>,
              GetUpdatePlaceholders(row, call.driver),
              GetWhere(row, call.driver, GetUpdateColumnsLength(row)), <<>>,
              row.updateValues \o row.pkValues,
              GetUpdateValues(row, primaryKeys) \o GetPKValues(row, primaryKeys),
              ok, 0)

\* the two statements of fixPostgresPKSequence
SequenceNameQuery(ok, ret) ==
    Statement("SEQNAME", "existence", <<>>, <<Placeholder("postgres", 1),
              Placeholder("postgres", 2)>>, <<>>, <<>>, <<>>,
              <<StrV(<<row.Table>>), StrV(<<"id">>)>>,
              <<StrV(<<row.Table>>), StrV(<<"id">>)>>, ok, ret)
SetvalQuery(ok) ==
    Statement("SETVAL", "existence", <<Quoted("id")>>, <<Placeholder("postgres", 1)>>,
              <<>>, <<>>, <<>>,
              <<StrV(<<"seq">>)>>, <<StrV(<<"seq">>)>>, ok, 0)

(***************************************************************************)
(* Decisions of LoadWithContext                                            *)
(***************************************************************************)
IsGeneratedInsertNever(pkValues) == FALSE

\* the Generated-Insert test: exactly one pk value and it is a generator
IsGeneratedInsert(pkValues) == Len(pkValues) = 1 /\ pkValues[1].k = "gen"

AfterCountNoSkip(n, updateLength) == IF n = 0 THEN "insert" ELSE "update"
AfterCountAlwaysInsert(n, updateLength) == "insert"

\* what follows the existence count
AfterCount(n, updateLength) ==
    IF n = 0 THEN "insert"
    ELSE IF updateLength > 0 THEN "update"
    ELSE "rowloop"

FixAfterInsertAnyDriver(driver, r) == GetPKAndInsertColumns(r)[1] = Quoted("id")

\* the sequence fix-up tests after INSERT and after UPDATE
FixAfterInsert(driver, r) ==
    driver = postgresDriver /\ GetPKAndInsertColumns(r)[1] = Quoted("id")
FixAfterUpdate(driver, r) ==
    driver = postgresDriver /\ GetUpdateColumns(r)[1] = Quoted("id")

ErrorRowZeroBased(idx) == idx

\* the index a row failure is reported with
ErrorRow(idx) == idx + 1

ContextRegistryPerFile(registry) == EmptyRegistry

\* the registry a later file of LoadFiles is processed with
ContextRegistry(registry) == registry


(***************************************************************************)
(* Actions                                                                 *)
(***************************************************************************)
\* return err: the deferred tx.Rollback runs if a transaction was begun
Fail(err) ==
    /\ result' = err
    /\ pc' = IF txState = "none" THEN "returned" ELSE "defer"

\* continue: the next iteration of the row loop
NextRow ==
    /\ i' = i + 1
    /\ pc' = "rowloop"

\* a client calls Load(data, db, driver)
CallLoad(d, driver, flag) ==
    /\ pc = "idle"
    /\ call' = [entry |-> "Load", data |-> d, filenames |-> <<>>,
                driver |-> driver, SetUpdatedAtOnInsert |-> flag]
    /\ dbBefore' = db
    /\ pc' = "begin"
    /\ UNCHANGED <<db, txdb, txState, txOps, fileIdx, data, rows, i, row,
                   primaryKeys, count, log, result, history>>
    /\ UNCHANGED cvars

\* a client calls LoadFile(filename, db, driver)
CallLoadFile(f, driver, flag) ==
    /\ pc = "idle"
    /\ call' = [entry |-> "LoadFile", data |-> Malformed, filenames |-> <<f>>,
                driver |-> driver, SetUpdatedAtOnInsert |-> flag]
    /\ dbBefore' = db
    /\ pc' = "readfile"
    /\ UNCHANGED <<db, txdb, txState, txOps, fileIdx, data, rows, i, row,
                   primaryKeys, count, log, result, history>>
    /\ UNCHANGED cvars

\* a client calls LoadFiles(filenames, db, driver)
CallLoadFiles(fs, driver, flag) ==
    /\ pc = "idle"
    /\ call' = [entry |-> "LoadFiles", data |-> Malformed, filenames |-> fs,
                driver |-> driver, SetUpdatedAtOnInsert |-> flag]
    /\ dbBefore' = db
    /\ pc' = "begin"
    /\ UNCHANGED <<db, txdb, txState, txOps, fileIdx, data, rows, i, row,
                   primaryKeys, count, log, result, history>>
    /\ UNCHANGED cvars

\* the client repeats a call that succeeded, with the same arguments
CallAgain ==
    /\ pc = "returned"
    /\ result = NoError
    /\ Len(history) + 1 < MaxLoads
    /\ history' = Append(history, [log |-> log, result |-> result,
                                   dbBefore |-> dbBefore, dbAfter |-> db])
    /\ dbBefore' = db
    /\ pc' = IF call.entry = "LoadFile" THEN "readfile" ELSE "begin"
    /\ txdb' = {}
    /\ txState' = "none"
    /\ txOps' = <<>>
    /\ fileIdx' = 0
    /\ data' = Malformed
    /\ rows' = <<>>
    /\ i' = 0
    /\ row' = NoRow
    /\ primaryKeys' = EmptyRegistry
    /\ count' = 0
    /\ log' = <<>>
    /\ result' = Pending
    /\ UNCHANGED <<db, call>>
    /\ UNCHANGED cvars

\* LoadFile: ioutil.ReadFile before the transaction is begun
ReadFile ==
    /\ pc = "readfile"
    /\ LET f == FileSystem[call.filenames[1]]
       IN  IF f.readable
           THEN /\ data' = f.data
                /\ pc' = "begin"
                /\ UNCHANGED result
           ELSE /\ Fail(NewFileError(call.filenames[1], "read"))
                /\ UNCHANGED data
    /\ UNCHANGED <<db, txdb, txState, txOps, call, fileIdx, rows, i, row,
                   primaryKeys, count, log, dbBefore, history>>
    /\ UNCHANGED cvars

\* db.Begin(), defer tx.Rollback(), and the Context with its empty registry
Begin ==
    /\ pc = "begin"
    /\ \/ /\ txState' = "active"
          /\ txdb' = db
          /\ primaryKeys' = EmptyRegistry
          /\ data' = IF call.entry = "Load" THEN call.data ELSE data
          /\ pc' = IF call.entry = "LoadFiles" THEN "nextfile" ELSE "unmarshal"
          /\ UNCHANGED result
       \/ /\ Fail(PlainError("begin"))
          /\ UNCHANGED <<txState, txdb, primaryKeys, data>>
    /\ UNCHANGED <<db, txOps, call, fileIdx, rows, i, row, count, log,
                   dbBefore, history>>
    /\ UNCHANGED cvars

\* LoadFiles: the head of the loop over the file names
NextFile ==
    /\ pc = "nextfile"
    /\ IF fileIdx < Len(call.filenames)
       THEN LET name == call.filenames[fileIdx + 1]
                f == FileSystem[name]
            IN  IF f.readable
                THEN /\ data' = f.data
                     /\ fileIdx' = fileIdx + 1
                     /\ primaryKeys' = ContextRegistry(primaryKeys)
                     /\ pc' = "unmarshal"
                     /\ UNCHANGED result
                ELSE /\ Fail(NewFileError(name, "read"))
                     /\ UNCHANGED <<data, fileIdx, primaryKeys>>
       ELSE /\ pc' = "commit"
            /\ UNCHANGED <<data, fileIdx, primaryKeys, result>>
    /\ UNCHANGED <<db, txdb, txState, txOps, call, rows, i, row, count, log,
                   dbBefore, history>>
    /\ UNCHANGED cvars

UnmarshalIgnoresError ==
    /\ pc = "unmarshal"
    /\ rows' = IF data.ok THEN data.rows ELSE <<>>
    /\ i' = 0
    /\ pc' = "rowloop"
    /\ UNCHANGED <<db, txdb, txState, txOps, call, fileIdx, data, row,
                   primaryKeys, count, log, result, dbBefore, history>>
    /\ UNCHANGED cvars

\* LoadWithContext: yaml.Unmarshal(data, &rows)
Unmarshal ==
    /\ pc = "unmarshal"
    /\ IF data.ok
       THEN /\ rows' = data.rows
            /\ i' = 0
            /\ pc' = "rowloop"
            /\ UNCHANGED result
       ELSE /\ Fail(PlainError("yaml"))
            /\ UNCHANGED <<rows, i>>
    /\ UNCHANGED <<db, txdb, txState, txOps, call, fileIdx, data, row,
                   primaryKeys, count, log, dbBefore, history>>
    /\ UNCHANGED cvars

\* the head of the row loop: row.Init and the choice of the path
RowLoop ==
    /\ pc = "rowloop"
    /\ IF i < Len(rows)
       THEN LET r == RowInit(rows[i + 1], call.SetUpdatedAtOnInsert)
            IN  /\ row' = r
                /\ pc' = IF IsGeneratedInsert(GetPKValues(r, primaryKeys))
                         THEN "geninsert" ELSE "select"
       ELSE /\ pc' = IF call.entry = "LoadFiles" THEN "nextfile" ELSE "commit"
            /\ UNCHANGED row
    /\ UNCHANGED <<db, txdb, txState, txOps, call, fileIdx, data, rows, i,
                   primaryKeys, count, log, result, dbBefore, history>>
    /\ UNCHANGED cvars

\* Generated-Insert path: the INSERT, with RETURNING scanned for postgres
GeneratedInsert ==
    /\ pc = "geninsert"
    /\ LET args == GetInsertValues(row, primaryKeys)
           pkCol == GetPKColumns(row)[1]
           name == GetPKValues(row, primaryKeys)[1].s[1]
       IN  \/ /\ AllBindable(args)
              /\ \E key \in FreeKeys(txdb, row.Table, pkCol) :
                    /\ txdb' = InsertRow(txdb, row.Table,
                                         <<pkCol>> \o row.insertColumns,
                                         <<IntV(key)>> \o args)
                    /\ log' = Append(log, GeneratedInsertQuery(TRUE, key))
                    /\ IF "postgres" = call.driver
                       THEN /\ primaryKeys' = GeneratorSet(primaryKeys, name, IntV(key))
                            /\ NextRow
                       ELSE /\ pc' = "lastinsertid"
                            /\ UNCHANGED <<primaryKeys, i>>
              /\ UNCHANGED result
           \/ /\ log' = Append(log, GeneratedInsertQuery(FALSE, 0))
              /\ Fail(NewProcessingError(ErrorRow(i),
                         IF "postgres" = call.driver THEN "scan" ELSE "exec"))
              /\ UNCHANGED <<txdb, primaryKeys, i>>
    /\ UNCHANGED <<db, txState, txOps, call, fileIdx, data, rows, row, count,
                   dbBefore, history>>
    /\ UNCHANGED cvars

LastInsertIdSetsOnFailure ==
    /\ pc = "lastinsertid"
    /\ LET name == GetPKValues(row, primaryKeys)[1].s[1]
           key == log[Len(log)].ret
       IN  \/ /\ primaryKeys' = GeneratorSet(primaryKeys, name, IntV(key))
              /\ NextRow
              /\ UNCHANGED result
           \/ /\ primaryKeys' = GeneratorSet(primaryKeys, name, IntV(0))
              /\ Fail(NewProcessingError(ErrorRow(i), "lastinsertid"))
              /\ UNCHANGED i
    /\ UNCHANGED <<db, txdb, txState, txOps, call, fileIdx, data, rows, row,
                   count, log, dbBefore, history>>
    /\ UNCHANGED cvars

\* Generated-Insert path, other drivers: res.LastInsertId()
LastInsertId ==
    /\ pc = "lastinsertid"
    /\ LET name == GetPKValues(row, primaryKeys)[1].s[1]
           key == log[Len(log)].ret
       IN  \/ /\ primaryKeys' = GeneratorSet(primaryKeys, name, IntV(key))
              /\ NextRow
              /\ UNCHANGED result
           \/ /\ Fail(NewProcessingError(ErrorRow(i), "lastinsertid"))
              /\ UNCHANGED <<primaryKeys, i>>
    /\ UNCHANGED <<db, txdb, txState, txOps, call, fileIdx, data, rows, row,
                   count, log, dbBefore, history>>
    /\ UNCHANGED cvars

\* existence check: SELECT COUNT(*) scanned into count
Select ==
    /\ pc = "select"
    /\ LET args == GetPKValues(row, primaryKeys)
           n == CountRows(txdb, row.Table, row.pkColumns, args)
       IN  \/ /\ AllBindable(args)
              /\ count' = n
              /\ log' = Append(log, SelectQuery(TRUE, n))
              /\ LET next == AfterCount(n, GetUpdateColumnsLength(row))
                 IN  IF next = "rowloop"
                     THEN NextRow
                     ELSE pc' = next /\ UNCHANGED i
              /\ UNCHANGED result
           \/ /\ log' = Append(log, SelectQuery(FALSE, 0))
              /\ Fail(NewProcessingError(ErrorRow(i), "scan"))
              /\ UNCHANGED <<count, i>>
    /\ UNCHANGED <<db, txdb, txState, txOps, call, fileIdx, data, rows, row,
                   primaryKeys, dbBefore, history>>
    /\ UNCHANGED cvars

InsertFallsThrough ==
    /\ pc = "insert"
    /\ LET args == GetPKAndInsertValues(row, primaryKeys)
       IN  \/ /\ AllBindable(args)
              /\ txdb' = InsertRow(txdb, row.Table,
                                   row.pkColumns \o row.insertColumns, args)
              /\ log' = Append(log, InsertQuery(TRUE))
              /\ IF GetUpdateColumnsLength(row) > 0
                 THEN pc' = "update" /\ UNCHANGED i
                 ELSE NextRow
              /\ UNCHANGED result
           \/ /\ log' = Append(log, InsertQuery(FALSE))
              /\ Fail(NewProcessingError(ErrorRow(i), "exec"))
              /\ UNCHANGED <<txdb, i>>
    /\ UNCHANGED <<db, txState, txOps, call, fileIdx, data, rows, row,
                   primaryKeys, count, dbBefore, history>>
    /\ UNCHANGED cvars

\* Insert path: the INSERT over primary-key and insert columns
Insert ==
    /\ pc = "insert"
    /\ LET args == GetPKAndInsertValues(row, primaryKeys)
       IN  \/ /\ AllBindable(args)
              /\ txdb' = InsertRow(txdb, row.Table,
                                   row.pkColumns \o row.insertColumns, args)
              /\ log' = Append(log, InsertQuery(TRUE))
              /\ IF FixAfterInsert(call.driver, row)
                 THEN pc' = "seqname" /\ UNCHANGED i
                 ELSE NextRow
              /\ UNCHANGED result
           \/ /\ log' = Append(log, InsertQuery(FALSE))
              /\ Fail(NewProcessingError(ErrorRow(i), "exec"))
              /\ UNCHANGED <<txdb, i>>
    /\ UNCHANGED <<db, txState, txOps, call, fileIdx, data, rows, row,
                   primaryKeys, count, dbBefore, history>>
    /\ UNCHANGED cvars

\* Update path: the UPDATE of the update columns
Update ==
    /\ pc = "update"
    /\ LET setArgs == GetUpdateValues(row, primaryKeys)
           pkArgs == GetPKValues(row, primaryKeys)
       IN  \/ /\ AllBindable(setArgs \o pkArgs)
              /\ txdb' = UpdateRows(txdb, row.Table, row.updateColumns, setArgs,
                                    row.pkColumns, pkArgs)
              /\ log' = Append(log, UpdateQuery(TRUE))
              /\ IF FixAfterUpdate(call.driver, row)
                 THEN pc' = "seqname" /\ UNCHANGED i
                 ELSE NextRow
              /\ UNCHANGED result
           \/ /\ log' = Append(log, UpdateQuery(FALSE))
              /\ Fail(NewProcessingError(ErrorRow(i), "exec"))
              /\ UNCHANGED <<txdb, i>>
    /\ UNCHANGED <<db, txState, txOps, call, fileIdx, data, rows, row,
                   primaryKeys, count, dbBefore, history>>
    /\ UNCHANGED cvars

SequenceNameIgnoresNil ==
    /\ pc = "seqname"
    /\ \/ /\ \E ret \in {0, 1} : log' = Append(log, SequenceNameQuery(TRUE, ret))
          /\ pc' = "setval"
          /\ UNCHANGED <<i, result>>
       \/ /\ log' = Append(log, SequenceNameQuery(FALSE, 0))
          /\ Fail(NewProcessingError(ErrorRow(i), "seqname"))
          /\ UNCHANGED i
    /\ UNCHANGED <<db, txdb, txState, txOps, call, fileIdx, data, rows, row,
                   primaryKeys, count, dbBefore, history>>
    /\ UNCHANGED cvars

\* fixPostgresPKSequence: SELECT pg_get_serial_sequence($1, $2)
SequenceName ==
    /\ pc = "seqname"
    /\ \/ /\ log' = Append(log, SequenceNameQuery(TRUE, 0))    \* seqName == nil
          /\ NextRow
          /\ UNCHANGED result
       \/ /\ log' = Append(log, SequenceNameQuery(TRUE, 1))
          /\ pc' = "setval"
          /\ UNCHANGED <<i, result>>
       \/ /\ log' = Append(log, SequenceNameQuery(FALSE, 0))
          /\ Fail(NewProcessingError(ErrorRow(i), "seqname"))
          /\ UNCHANGED i
    /\ UNCHANGED <<db, txdb, txState, txOps, call, fileIdx, data, rows, row,
                   primaryKeys, count, dbBefore, history>>
    /\ UNCHANGED cvars

\* fixPostgresPKSequence: SELECT pg_catalog.setval($1, (SELECT MAX("id") ...))
Setval ==
    /\ pc = "setval"
    /\ \/ /\ log' = Append(log, SetvalQuery(TRUE))
          /\ NextRow
          /\ UNCHANGED result
       \/ /\ log' = Append(log, SetvalQuery(FALSE))
          /\ Fail(NewProcessingError(ErrorRow(i), "setval"))
          /\ UNCHANGED i
    /\ UNCHANGED <<db, txdb, txState, txOps, call, fileIdx, data, rows, row,
                   primaryKeys, count, dbBefore, history>>
    /\ UNCHANGED cvars

\* return tx.Commit()
Commit ==
    /\ pc = "commit"
    /\ txOps' = Append(txOps, [op |-> "commit", found |-> txState])
    /\ \/ /\ db' = Committed(db, txdb)
          /\ txState' = "committed"
          /\ result' = NoError
       \/ /\ txState' = "aborted"
          /\ result' = PlainError("commit")
          /\ UNCHANGED db
    /\ pc' = "defer"
    /\ UNCHANGED <<txdb, call, fileIdx, data, rows, i, row, primaryKeys, count,
                   log, dbBefore, history>>
    /\ UNCHANGED cvars

ReturnWithoutRollback ==
    /\ pc = "defer"
    /\ pc' = "returned"
    /\ UNCHANGED <<db, txdb, txState, txOps, call, fileIdx, data, rows, i, row,
                   primaryKeys, count, log, result, dbBefore, history>>
    /\ UNCHANGED cvars

\* the deferred tx.Rollback(): sql.ErrTxDone, ignored, once the tx is finished
DeferredRollback ==
    /\ pc = "defer"
    /\ txOps' = Append(txOps, [op |-> "rollback", found |-> txState])
    /\ IF txState = "active"
       THEN /\ db' = RolledBack(db, txdb)
            /\ txState' = "rolledback"
       ELSE UNCHANGED <<db, txState>>
    /\ pc' = "returned"
    /\ UNCHANGED <<txdb, call, fileIdx, data, rows, i, row, primaryKeys, count,
                   log, result, dbBefore, history>>
    /\ UNCHANGED cvars

Next ==
    \/ \E d \in Datas, driver \in Drivers, flag \in BOOLEAN :
          CallLoad(d, driver, flag)
    \/ \E f \in FileNames, driver \in Drivers, flag \in BOOLEAN :
          CallLoadFile(f, driver, flag)
    \/ \E fs \in SeqsUpTo(FileNames, MaxFiles), driver \in Drivers, flag \in BOOLEAN :
          CallLoadFiles(fs, driver, flag)
    \/ CallAgain
    \/ ReadFile
    \/ Begin
    \/ NextFile
    \/ Unmarshal
    \/ RowLoop
    \/ GeneratedInsert
    \/ LastInsertId
    \/ Select
    \/ Insert
    \/ Update
    \/ SequenceName
    \/ Setval
    \/ Commit
    \/ DeferredRollback

Spec == Init /\ [][Next]_vars

(***************************************************************************)
(* Concurrent callers.  Each caller runs Load(data, db, driver) once, on   *)
(* the same database; the steps of the two calls interleave.  A Context    *)
(* holds a reference to its registry (a Go map on the heap) and to its     *)
(* transaction; one step of a call is one statement of Load or one         *)
(* iteration of the row loop of LoadWithContext.                           *)
(***************************************************************************)
DefaultSetUpdatedAtOnInsert == FALSE

\* the documents the concurrent callers load
ConcurrentDatas ==
    {Document(<<RowGen>>), Document(<<RowRefPK>>), Document(<<RowGen, RowRefPK>>),
     Document(<<RowLit>>), Malformed}

\* a statement of a concurrent call, as kept in its log
Entry(idx, r, kind, path, raw, args, ok, ret) ==
    [file |-> 0, row |-> idx, kind |-> kind, path |-> path,
     name |-> IF path = "generated" THEN r.pkValues[1].s[1] ELSE "",
     table |-> r.Table, raw |-> raw, args |-> args, ok |-> ok, ret |-> ret]

NewContextSharedRegistry(h, tx) ==
    [heap |-> IF h = <<>> THEN <<EmptyRegistry>> ELSE h,
     ctx |-> [primaryKeys |-> 1, tx |-> tx]]

\* Context{primaryKeys: map[string]interface{}{}, Db: tx, ...}: a new map
NewContext(h, tx) ==
    [heap |-> Append(h, EmptyRegistry),
     ctx |-> [primaryKeys |-> Len(h) + 1, tx |-> tx]]

\* the contents every transaction in progress or committed has put a key into
AllContents == db \cup UNION {txs[t].work : t \in 1..Len(txs)}

\* tx.Commit of a transaction begun on base and holding work
CommittedOnto(committed, base, work) ==
    (committed \ (base \ work)) \cup (work \ base)

\* fixPostgresPKSequence after a statement: what the iteration can end with
FixUps(idx, r, entries, work, reg, fix) ==
    IF ~ fix THEN {[entries |-> entries, work |-> work, reg |-> reg, cause |-> ""]}
    ELSE LET name(ok, ret) ==
                 Entry(idx, r, "SEQNAME", "existence",
                       <<StrV(<<r.Table>>), StrV(<<"id">>)>>,
                       <<StrV(<<r.Table>>), StrV(<<"id">>)>>, ok, ret)
             setval(ok) ==
                 Entry(idx, r, "SETVAL", "existence",
                       <<StrV(<<"seq">>)>>, <<StrV(<<"seq">>)>>, ok, 0)
         IN  {[entries |-> entries \o <<name(FALSE, 0)>>, work |-> work,
               reg |-> reg, cause |-> "seqname"],
              [entries |-> entries \o <<name(TRUE, 0)>>, work |-> work,
               reg |-> reg, cause |-> ""],
              [entries |-> entries \o <<name(TRUE, 1), setval(FALSE)>>, work |-> work,
               reg |-> reg, cause |-> "setval"],
              [entries |-> entries \o <<name(TRUE, 1), setval(TRUE)>>, work |-> work,
               reg |-> reg, cause |-> ""]}

\* one iteration of the row loop of LoadWithContext on compiled row r: the
\* statements it hands to the transaction, the contents and the registry it
\* leaves, and the cause of its failure ("" when it goes on to the next row)
RowOutcomes(idx, r, driver, reg, work, contents) ==
    LET pkv == GetPKValues(r, reg)
        end(entries, w, g, cause) ==
            [entries |-> entries, work |-> w, reg |-> g, cause |-> cause]
    IN  IF IsGeneratedInsert(pkv)
        THEN LET args == GetInsertValues(r, reg)
                 pkCol == GetPKColumns(r)[1]
                 ins(ok, ret) == Entry(idx, r, "INSERT", "generated",
                                       r.insertValues, args, ok, ret)
                 put(key) == InsertRow(work, r.Table, <<pkCol>> \o r.insertColumns,
                                       <<IntV(key)>> \o args)
                 keys == IF AllBindable(args)
                         THEN FreeKeys(contents, r.Table, pkCol) ELSE {}
             IN  {end(<<ins(FALSE, 0)>>, work, reg,
                      IF driver = "postgres" THEN "scan" ELSE "exec")}
                 \cup {end(<<ins(TRUE, key)>>, put(key),
                           GeneratorSet(reg, pkv[1].s[1], IntV(key)), "") : key \in keys}
                 \cup {end(<<ins(TRUE, key)>>, put(key), reg, "lastinsertid") :
                           key \in IF driver = "postgres" THEN {} ELSE keys}
        ELSE LET n == CountRows(work, r.Table, r.pkColumns, pkv)
                 sel(ok) == Entry(idx, r, "SELECT", "existence", r.pkValues, pkv,
                                  ok, IF ok THEN n ELSE 0)
                 next == AfterCount(n, GetUpdateColumnsLength(r))
                 insArgs == GetPKAndInsertValues(r, reg)
                 ins(ok) == Entry(idx, r, "INSERT", "existence",
                                  r.pkValues \o r.insertValues, insArgs, ok, 0)
                 setArgs == GetUpdateValues(r, reg)
                 upd(ok) == Entry(idx, r, "UPDATE", "existence",
                                  r.updateValues \o r.pkValues, setArgs \o pkv, ok, 0)
             IN  {end(<<sel(FALSE)>>, work, reg, "scan")}
                 \cup
                 IF ~ AllBindable(pkv) THEN {}
                 ELSE IF next = "insert"
                 THEN {end(<<sel(TRUE), ins(FALSE)>>, work, reg, "exec")}
                      \cup IF AllBindable(insArgs)
                           THEN FixUps(idx, r, <<sel(TRUE), ins(TRUE)>>,
                                       InsertRow(work, r.Table,
                                                 r.pkColumns \o r.insertColumns, insArgs),
                                       reg, FixAfterInsert(driver, r))
                           ELSE {}
                 ELSE IF next = "update"
                 THEN {end(<<sel(TRUE), upd(FALSE)>>, work, reg, "exec")}
                      \cup IF AllBindable(setArgs \o pkv)
                           THEN FixUps(idx, r, <<sel(TRUE), upd(TRUE)>>,
                                       UpdateRows(work, r.Table, r.updateColumns, setArgs,
                                                  r.pkColumns, pkv),
                                       reg, FixAfterUpdate(driver, r))
                           ELSE {}
                 ELSE {end(<<sel(TRUE)>>, work, reg, "")}

\* the rest of the state is the sequential client's and stays as it is
IdleClient ==
    UNCHANGED <<txdb, txState, txOps, pc, call, fileIdx, data, rows, i, row,
                primaryKeys, count, log, result, dbBefore, history>>

\* caller c calls Load(data, db, driver)
GoLoad(c, d, driver) ==
    /\ loads[c].pc = "idle"
    /\ loads' = [loads EXCEPT ![c].pc = "begin", ![c].data = d, ![c].driver = driver]
    /\ UNCHANGED <<db, heap, txs>>
    /\ IdleClient

\* Load: db.Begin(), defer tx.Rollback(), the Context with its new registry
LoadBegin(c) ==
    /\ loads[c].pc = "begin"
    /\ \/ LET made == NewContext(heap, Len(txs) + 1)
          IN  /\ txs' = Append(txs, [state |-> "active", base |-> db, work |-> db])
              /\ heap' = made.heap
              /\ loads' = [loads EXCEPT ![c].ctx = made.ctx, ![c].pc = "unmarshal"]
       \/ /\ loads' = [loads EXCEPT ![c].result = PlainError("begin"),
                                    ![c].pc = "returned"]
          /\ UNCHANGED <<heap, txs>>
    /\ UNCHANGED db
    /\ IdleClient

\* LoadWithContext: yaml.Unmarshal(data, &rows)
LoadUnmarshal(c) ==
    /\ loads[c].pc = "unmarshal"
    /\ loads' = IF loads[c].data.ok
                THEN [loads EXCEPT ![c].rows = loads[c].data.rows, ![c].i = 0,
                                   ![c].pc = "rowloop"]
                ELSE [loads EXCEPT ![c].result = PlainError("yaml"), ![c].pc = "defer"]
    /\ UNCHANGED <<db, heap, txs>>
    /\ IdleClient

\* LoadWithContext: one iteration of the row loop, or its end
LoadRow(c) ==
    /\ loads[c].pc = "rowloop"
    /\ LET l == loads[c]
           m == l.ctx.primaryKeys
           t == l.ctx.tx
       IN  IF l.i < Len(l.rows)
           THEN \E o \in RowOutcomes(l.i + 1,
                                     RowInit(l.rows[l.i + 1], DefaultSetUpdatedAtOnInsert),
                                     l.driver, heap[m], txs[t].work, AllContents) :
                   /\ heap' = [heap EXCEPT ![m] = o.reg]
                   /\ txs' = [txs EXCEPT ![t].work = o.work]
                   /\ loads' = IF o.cause = ""
                               THEN [loads EXCEPT ![c].log = l.log \o o.entries,
                                                  ![c].i = l.i + 1]
                               ELSE [loads EXCEPT ![c].log = l.log \o o.entries,
                                                  ![c].result =
                                                      NewProcessingError(ErrorRow(l.i),
                                                                         o.cause),
                                                  ![c].pc = "defer"]
           ELSE /\ loads' = [loads EXCEPT ![c].pc = "commit"]
                /\ UNCHANGED <<heap, txs>>
    /\ UNCHANGED db
    /\ IdleClient

\* Load: return tx.Commit()
LoadCommit(c) ==
    /\ loads[c].pc = "commit"
    /\ LET t == loads[c].ctx.tx
       IN  \/ /\ db' = CommittedOnto(db, txs[t].base, txs[t].work)
              /\ txs' = [txs EXCEPT ![t].state = "committed"]
              /\ loads' = [loads EXCEPT ![c].result = NoError, ![c].pc = "defer"]
           \/ /\ txs' = [txs EXCEPT ![t].state = "aborted"]
              /\ loads' = [loads EXCEPT ![c].result = PlainError("commit"),
                                        ![c].pc = "defer"]
              /\ UNCHANGED db
    /\ UNCHANGED heap
    /\ IdleClient

\* Load: the deferred tx.Rollback()
LoadDeferredRollback(c) ==
    /\ loads[c].pc = "defer"
    /\ LET t == loads[c].ctx.tx
       IN  txs' = IF txs[t].state = "active"
                  THEN [txs EXCEPT ![t].state = "rolledback", ![t].work = txs[t].base]
                  ELSE txs
    /\ loads' = [loads EXCEPT ![c].pc = "returned"]
    /\ UNCHANGED <<db, heap>>
    /\ IdleClient

NextConcurrent ==
    \/ \E c \in Callers, d \in ConcurrentDatas, driver \in Drivers : GoLoad(c, d, driver)
    \/ \E c \in Callers : LoadBegin(c)
    \/ \E c \in Callers : LoadUnmarshal(c)
    \/ \E c \in Callers : LoadRow(c)
    \/ \E c \in Callers : LoadCommit(c)
    \/ \E c \in Callers : LoadDeferredRollback(c)

SpecConcurrent == Init /\ [][NextConcurrent]_<<vars, cvars>>


(***************************************************************************)
(* Vocabulary of the properties                                            *)
(***************************************************************************)
\* the fixture row behind statement number j of a log of the current call
DocumentOf(file) ==
    IF call.entry = "Load" THEN call.data
    ELSE IF call.entry = "LoadFile" THEN FileSystem[call.filenames[1]].data
    ELSE FileSystem[call.filenames[file]].data
RowAt(file, idx) == DocumentOf(file).rows[idx]

\* markers, read off the document text
IsGenerateMarker(v) ==
    v.k = "str" /\ Len(v.s) >= 2 /\ v.s[1] = "PK_GENERATE(" /\ v.s[Len(v.s)] = ")"
IsReferenceMarker(v) ==
    v.k = "str" /\ Len(v.s) >= 2 /\ v.s[1] = "PK_REFERENCE(" /\ v.s[Len(v.s)] = ")"
HasGeneratedKey(spec) ==
    Cardinality(DOMAIN spec.PK) = 1 /\ \A c \in DOMAIN spec.PK : IsGenerateMarker(spec.PK[c])
HasLiteralKey(spec) ==
    \A c \in DOMAIN spec.PK :
        /\ ~ IsGenerateMarker(spec.PK[c])
        /\ ~ IsReferenceMarker(spec.PK[c])
        /\ spec.PK[c].k # "nil"

\* statement j of log l is a generated INSERT whose key has been retrieved
Inserted(l, j) ==
    /\ l[j].kind = "INSERT"
    /\ l[j].path = "generated"
    /\ l[j].ok
GenDone(j) ==
    /\ Inserted(log, j)
    /\ ~ (j = Len(log) /\ (pc = "lastinsertid" \/ result.cause = "lastinsertid"))

\* statement j is the most recent generated INSERT under its name before k
LatestBefore(j, k) ==
    /\ j < k
    /\ GenDone(j)
    /\ ~ \E m \in (j + 1)..(k - 1) : GenDone(m) /\ log[m].name = log[j].name

\* position p of statement k binds a PK_REFERENCE(name)
RefersTo(k, p, name) == log[k].raw[p] = PrimaryKeyReference(name)

StatementsOf(l, file, idx, kinds) ==
    {j \in 1..Len(l) : l[j].file = file /\ l[j].row = idx /\ l[j].kind \in kinds}

(***************************************************************************)
(* C1 (as stated): once a PK_GENERATE(name) row is inserted, the registry  *)
(* maps name to the key the database returned for that insert, and every   *)
(* later statement of the batch binds that key for PK_REFERENCE(name).     *)
(***************************************************************************)
C1_EveryInsertKeepsItsKey ==
    \A j \in 1..Len(log) :
        GenDone(j) =>
            /\ ReferenceGet(primaryKeys, log[j].name) = IntV(log[j].ret)
            /\ \A k \in (j + 1)..Len(log) : \A p \in 1..Len(log[k].raw) :
                  RefersTo(k, p, log[j].name) => log[k].args[p] = IntV(log[j].ret)

(***************************************************************************)
(* C1 (amended): the registry maps name to the key returned by the most    *)
(* recent successful PK_GENERATE(name) insert of the batch, and a later    *)
(* statement binds, for PK_REFERENCE(name), the key of the most recent     *)
(* such insert before it.                                                  *)
(***************************************************************************)
C1_LatestInsertKeyIsBound ==
    \A j \in 1..Len(log) :
        GenDone(j) =>
            /\ LatestBefore(j, Len(log) + 1) =>
                  ReferenceGet(primaryKeys, log[j].name) = IntV(log[j].ret)
            /\ \A k \in (j + 1)..Len(log) : \A p \in 1..Len(log[k].raw) :
                  (LatestBefore(j, k) /\ RefersTo(k, p, log[j].name))
                      => log[k].args[p] = IntV(log[j].ret)

\* a generated key is bound by the SELECT, the INSERT and the UPDATE of later rows
C1_Witness ==
    \E j \in 1..Len(log) :
        /\ GenDone(j)
        /\ \A kind \in {"SELECT", "UPDATE"} :
              \E k \in (j + 1)..Len(log) : \E p \in 1..Len(log[k].raw) :
                  /\ log[k].kind = kind
                  /\ log[k].ok
                  /\ LatestBefore(j, k)
                  /\ RefersTo(k, p, log[j].name)
                  /\ log[k].args[p] = IntV(log[j].ret)

(***************************************************************************)
(* C2: a PK_REFERENCE(name) with no earlier PK_GENERATE(name) in the batch *)
(* fails the load with a lookup error for that row; no statement is        *)
(* executed with nil bound in place of the reference.                      *)
(***************************************************************************)
C2_DanglingReferenceFails ==
    \A k \in 1..Len(log) : \A p \in 1..Len(log[k].raw) :
        (log[k].raw[p].k = "ref" /\ ~ \E j \in 1..(k - 1) :
                                         GenDone(j) /\ RefersTo(k, p, log[j].name))
            => /\ log[k].args[p] # Nil
               /\ ~ log[k].ok

(***************************************************************************)
(* C3: when row N fails, the call returns the failure without committing,  *)
(* the transaction is rolled back and the database holds what it held      *)
(* before the call, the effects of rows 1..N-1 included.                   *)
(***************************************************************************)
C3_FailureLeavesDatabaseUnchanged ==
    (pc = "returned" /\ result.kind = "processing") =>
        /\ db = dbBefore
        /\ txState = "rolledback"
        /\ \A o \in 1..Len(txOps) : txOps[o].op # "commit"

\* row N >= 2 failed after earlier rows had changed the contents
C3_Witness ==
    /\ pc = "returned"
    /\ result.kind = "processing"
    /\ result.row >= 2
    /\ txdb # dbBefore
    /\ db = dbBefore


(***************************************************************************)
(* C4: on the existence-check path the count and the update-column list    *)
(* decide the statement that follows the SELECT COUNT: count = 0, one      *)
(* INSERT and no UPDATE; count > 0 with update columns, one UPDATE and no  *)
(* INSERT; count > 0 without update columns, neither, and the load goes on *)
(* with the next row.                                                      *)
(***************************************************************************)
UpdateLengthAt(file, idx) ==
    GetUpdateColumnsLength(RowInit(RowAt(file, idx), call.SetUpdatedAtOnInsert))

C4_CountDecidesStatement ==
    \A j \in 1..Len(log) :
        (log[j].kind = "SELECT" /\ log[j].ok) =>
            LET ins == StatementsOf(log, log[j].file, log[j].row, {"INSERT"})
                upd == StatementsOf(log, log[j].file, log[j].row, {"UPDATE"})
                u == UpdateLengthAt(log[j].file, log[j].row)
                pending == j = Len(log) /\ pc \in {"insert", "update"}
            IN  /\ \A k \in ins \cup upd : k > j
                /\ log[j].ret = 0 =>
                      /\ upd = {}
                      /\ IF pending THEN ins = {} /\ pc = "insert"
                                    ELSE Cardinality(ins) = 1
                /\ (log[j].ret > 0 /\ u > 0) =>
                      /\ ins = {}
                      /\ IF pending THEN upd = {} /\ pc = "update"
                                    ELSE Cardinality(upd) = 1
                /\ (log[j].ret > 0 /\ u = 0) =>
                      /\ ins = {}
                      /\ upd = {}
                      /\ ~ pending
                      /\ ~ (result.kind = "processing" /\ fileIdx = log[j].file
                                /\ result.row = log[j].row)

\* a row found present without update columns is skipped and the next row,
\* not present, is inserted
C4_Witness ==
    \E j \in 1..Len(log) : \E k \in (j + 1)..Len(log) : \E m \in (k + 1)..Len(log) :
        /\ log[j].kind = "SELECT" /\ log[j].ok /\ log[j].ret > 0
        /\ UpdateLengthAt(log[j].file, log[j].row) = 0
        /\ log[k].kind = "SELECT" /\ log[k].ok /\ log[k].ret = 0
        /\ log[k].row = log[j].row + 1
        /\ log[m].kind = "INSERT" /\ log[m].ok /\ log[m].row = log[k].row

(***************************************************************************)
(* Two loads of the same input in succession, both succeeding, the first   *)
(* against an empty database.                                              *)
(***************************************************************************)
TwoLoads ==
    /\ Len(history) >= 1
    /\ history[1].dbBefore = {}
    /\ \/ Len(history) >= 2
       \/ pc = "returned" /\ result = NoError
FirstLog == history[1].log
SecondLog == IF Len(history) >= 2 THEN history[2].log ELSE log

\* the rows of the input, as (file, index) pairs
AllRows ==
    IF call.entry = "" THEN {}
    ELSE IF call.entry = "LoadFiles"
    THEN UNION {{<<f, r>> : r \in 1..Len(DocumentOf(f).rows)} :
                   f \in 1..Len(call.filenames)}
    ELSE {<<0, r>> : r \in 1..Len(DocumentOf(0).rows)}

(***************************************************************************)
(* C5 (as stated): loading the same document twice executes, for every     *)
(* row, one INSERT in the first load and no INSERT in the second, rows     *)
(* keyed by a PK_GENERATE marker included.                                 *)
(***************************************************************************)
C5_NeverTwoInserts ==
    TwoLoads =>
        \A fr \in AllRows :
            /\ Cardinality(StatementsOf(FirstLog, fr[1], fr[2], {"INSERT"})) = 1
            /\ StatementsOf(SecondLog, fr[1], fr[2], {"INSERT"}) = {}

(***************************************************************************)
(* C5 (amended): loading the same document twice executes, for every row   *)
(* whose primary key holds only non-null literal values, at most one       *)
(* INSERT in the first load and an UPDATE or no-op, never an INSERT, in    *)
(* the second; a row keyed by a single PK_GENERATE marker executes one     *)
(* INSERT in each of the two loads.                                        *)
(***************************************************************************)
C5_LiteralKeysInsertedOnce ==
    TwoLoads =>
        \A fr \in AllRows :
            LET spec == RowAt(fr[1], fr[2])
                first == StatementsOf(FirstLog, fr[1], fr[2], {"INSERT"})
                second == StatementsOf(SecondLog, fr[1], fr[2], {"INSERT"})
            IN  /\ HasLiteralKey(spec) =>
                      /\ Cardinality(first) <= 1
                      /\ second = {}
                      /\ StatementsOf(SecondLog, fr[1], fr[2], {"SELECT"}) # {}
                /\ HasGeneratedKey(spec) =>
                      /\ Cardinality(first) = 1
                      /\ Cardinality(second) = 1

\* a document with a generated-key row and a literal-key row, loaded twice:
\* the literal-key row was inserted, then updated
C5_Witness ==
    /\ TwoLoads
    /\ \E fr \in AllRows : HasGeneratedKey(RowAt(fr[1], fr[2]))
    /\ \E fr \in AllRows :
          /\ HasLiteralKey(RowAt(fr[1], fr[2]))
          /\ StatementsOf(FirstLog, fr[1], fr[2], {"INSERT"}) # {}
          /\ StatementsOf(SecondLog, fr[1], fr[2], {"UPDATE"}) # {}

(***************************************************************************)
(* C6: LoadFiles processes the files in list order in one transaction with *)
(* one registry: a PK_REFERENCE(name) of a later file binds the key a      *)
(* PK_GENERATE(name) of an earlier file produced, and a failure while      *)
(* reading, deserialising or processing file k commits nothing.            *)
(***************************************************************************)
C6_FilesShareOneBatch ==
    call.entry = "LoadFiles" =>
        /\ \A j \in 1..Len(log) : \A k \in (j + 1)..Len(log) :
              /\ log[j].file <= log[k].file
              /\ \A p \in 1..Len(log[k].raw) :
                    (log[j].file < log[k].file /\ LatestBefore(j, k)
                        /\ RefersTo(k, p, log[j].name))
                        => log[k].args[p] = IntV(log[j].ret)
        /\ (pc = "returned" /\ result.kind \in {"file", "processing", "plain"}
                /\ result.cause # "commit") =>
              /\ db = dbBefore
              /\ txState \in {"none", "rolledback"}
              /\ \A o \in 1..Len(txOps) : txOps[o].op # "commit"

\* the second file bound a key generated by the first, then failed, and the
\* rows of the first file are gone with it
C6_Witness ==
    /\ call.entry = "LoadFiles"
    /\ pc = "returned"
    /\ result.kind = "processing"
    /\ db = dbBefore
    /\ txdb # dbBefore
    /\ \E j \in 1..Len(log) : \E k \in (j + 1)..Len(log) : \E p \in 1..Len(log[k].raw) :
          /\ log[j].file = 1 /\ log[k].file = 2
          /\ LatestBefore(j, k)
          /\ RefersTo(k, p, log[j].name)
          /\ log[k].args[p] = IntV(log[j].ret)

(***************************************************************************)
(* C7: for postgres the placeholders of every statement are $1, $2, ... in *)
(* the order of the bound arguments, the WHERE clause of an UPDATE goes on *)
(* counting after the SET clause ($1..$k, then $k+1..$k+m) and the         *)
(* existence SELECT uses $1..$m; for any other driver every placeholder is *)
(* the unnumbered ?.                                                       *)
(***************************************************************************)
Dollar(n) == [sym |-> "$", n |-> n]
Question == [sym |-> "?", n |-> 0]

\* the placeholders of a statement in the order they appear in its text
PlaceholdersOf(e) ==
    e.ph \o [j \in 1..Len(e.set) |-> e.set[j].ph]
         \o [j \in 1..Len(e.where) |-> e.where[j].ph]

C7_PlaceholdersFollowArguments ==
    \A j \in 1..Len(log) :
        LET e == log[j]
            k == Len(e.set)
            m == Len(e.where)
        IN  IF call.driver = "postgres"
            THEN /\ \A q \in 1..Len(e.ph) : e.ph[q] = Dollar(q)
                 /\ \A q \in 1..k : e.set[q].ph = Dollar(q)
                 /\ \A q \in 1..m : e.where[q].ph = Dollar(k + q)
                 /\ e.kind = "SELECT" => k = 0
                 /\ Len(PlaceholdersOf(e)) = Len(e.args)
            ELSE \A q \in 1..Len(PlaceholdersOf(e)) : PlaceholdersOf(e)[q] = Question

\* a postgres UPDATE with two SET columns and a key column: $1, $2, then $3
C7_Witness ==
    \E j \in 1..Len(log) :
        /\ call.driver = "postgres"
        /\ log[j].kind = "UPDATE"
        /\ log[j].ok
        /\ Len(log[j].set) = 2
        /\ Len(log[j].where) = 1
        /\ log[j].where[1].ph = Dollar(3)

(***************************************************************************)
(* C8 (as stated): a call that has begun a transaction releases it exactly *)
(* once, by a commit exactly when nothing failed and by a rollback         *)
(* otherwise, and issues no release operation on a released transaction.   *)
(***************************************************************************)
NothingFailed == result.kind = "nil" \/ result.cause = "commit"

C8_NoReleaseAfterRelease ==
    (pc = "returned" /\ txState # "none") =>
        /\ Len(txOps) = 1
        /\ txOps[1].found = "active"
        /\ txOps[1].op = "commit" <=> NothingFailed

(***************************************************************************)
(* C8 (amended): a call that has begun a transaction releases it exactly   *)
(* once before returning: by the commit, issued exactly when nothing       *)
(* failed, and otherwise by the deferred rollback.  After a commit the     *)
(* deferred rollback is still issued, on the transaction the commit has    *)
(* released, where it changes nothing.                                     *)
(***************************************************************************)
Releases == {o \in 1..Len(txOps) : txOps[o].found = "active"}

C8_ReleasedExactlyOnce ==
    /\ Cardinality(Releases) <= 1
    /\ txState = "active" <=> (Releases = {} /\ pc \notin {"idle", "readfile", "begin"}
                                  /\ ~ (pc = "returned" /\ txOps = <<>>))
    /\ \A o \in 1..Len(txOps) : txOps[o].found # "active" => txOps[o].op = "rollback"
    /\ (pc = "returned" /\ txState # "none") =>
          /\ Cardinality(Releases) = 1
          /\ txOps[Len(txOps)].op = "rollback"
          /\ IF NothingFailed
             THEN /\ txOps = <<[op |-> "commit", found |-> "active"],
                               [op |-> "rollback", found |-> txState]>>
                  /\ txState \in {"committed", "aborted"}
                  /\ txState = "committed" => db = txdb
                  /\ txState = "aborted" => db = dbBefore
             ELSE /\ txOps = <<[op |-> "rollback", found |-> "active"]>>
                  /\ txState = "rolledback"
                  /\ db = dbBefore

\* a successful load: the commit released the transaction, the deferred
\* rollback found it committed and left the new contents in place
C8_Witness ==
    /\ pc = "returned"
    /\ txOps = <<[op |-> "commit", found |-> "active"],
                 [op |-> "rollback", found |-> "committed"]>>
    /\ db = txdb
    /\ db # dbBefore

(***************************************************************************)
(* C9: rows are processed in document order and the batch stops at the     *)
(* first failing statement: the error carries the 1-based index of the row *)
(* and the cause, the statement is not retried and no statement of a later *)
(* row is executed.                                                        *)
(***************************************************************************)
C9_StopsAtFirstFailure ==
    /\ \A j \in 1..Len(log) :
          /\ \A k \in (j + 1)..Len(log) :
                \/ log[j].file < log[k].file
                \/ log[j].file = log[k].file /\ log[j].row <= log[k].row
          /\ \A r \in 1..(log[j].row - 1) :
                StatementsOf(log, log[j].file, r,
                             {"SELECT", "INSERT", "UPDATE"}) # {}
          /\ ~ log[j].ok =>
                /\ j = Len(log)
                /\ pc \in {"defer", "returned"}
                /\ result.kind = "processing"
                /\ result.cause \in {"scan", "exec", "seqname", "setval"}
    /\ result.kind = "processing" =>
          /\ pc \in {"defer", "returned"}
          /\ Len(log) >= 1
          /\ result.row = log[Len(log)].row
          /\ result.row = i + 1
          /\ result.row \in 1..Len(rows)
          /\ log[Len(log)].file = fileIdx
          /\ ~ log[Len(log)].ok \/ result.cause = "lastinsertid"

\* the first row of a longer document failed: nothing of the second row ran
C9_Witness ==
    /\ pc = "returned"
    /\ result.kind = "processing"
    /\ result.row = 1
    /\ Len(rows) >= 2
    /\ ~ log[Len(log)].ok
    /\ \A j \in 1..Len(log) : log[j].row = 1

(***************************************************************************)
(* C10: a row whose primary-key spec is one column holding a PK_GENERATE   *)
(* marker executes exactly one INSERT, over the field insert columns only, *)
(* never the SELECT COUNT, and on success the registry holds the key the   *)
(* database assigned under the marker's name.                              *)
(***************************************************************************)
\* the rows of the input the call has finished with
Finished(file, idx) ==
    \/ file < fileIdx
    \/ file = fileIdx /\ pc # "unmarshal" /\ idx <= i

C10_GeneratedKeyRowInsertsOnce ==
    /\ \A j \in 1..Len(log) :
          HasGeneratedKey(RowAt(log[j].file, log[j].row)) =>
              LET spec == RowAt(log[j].file, log[j].row)
                  pkCol == CHOOSE c \in DOMAIN spec.PK : TRUE
                  r == RowInit(spec, call.SetUpdatedAtOnInsert)
              IN  /\ log[j].kind = "INSERT"
                  /\ log[j].path = "generated"
                  /\ log[j].cols = [q \in 1..Len(r.insertColumns) |->
                                       Quoted(r.insertColumns[q])]
                  /\ \A q \in 1..Len(log[j].cols) :
                        /\ log[j].cols[q].name # pkCol
                        /\ log[j].cols[q].name \in DOMAIN spec.Fields
                  /\ Len(log[j].args) = Len(log[j].cols)
                  /\ StatementsOf(log, log[j].file, log[j].row,
                                  {"SELECT", "INSERT", "UPDATE", "SEQNAME", "SETVAL"}) = {j}
                  /\ (GenDone(j) /\ LatestBefore(j, Len(log) + 1)) =>
                        /\ log[j].name = TrimSpace(TrimBoth(spec.PK[pkCol].s))
                        /\ log[j].name \in DOMAIN primaryKeys
                        /\ primaryKeys[log[j].name] = IntV(log[j].ret)
    /\ \A fr \in AllRows :
          (HasGeneratedKey(RowAt(fr[1], fr[2])) /\ Finished(fr[1], fr[2])) =>
                 \E j \in StatementsOf(log, fr[1], fr[2], {"INSERT"}) : GenDone(j)

\* a generated-key row was inserted and its key is in the registry
C10_Witness ==
    \E j \in 1..Len(log) :
        /\ HasGeneratedKey(RowAt(log[j].file, log[j].row))
        /\ GenDone(j)
        /\ Len(log[j].cols) = 1
        /\ primaryKeys[log[j].name] = IntV(log[j].ret)
        /\ Finished(log[j].file, log[j].row)

(***************************************************************************)
(* C11 (as stated): under Load, LoadFile and LoadFiles alike, a document   *)
(* that fails to deserialise makes the call return a failure, and the call *)
(* has executed no SQL statement before that failure.                      *)
(***************************************************************************)
\* the document handed to LoadWithContext was malformed and Unmarshal has run
DocumentRejected ==
    /\ ~ data.ok
    /\ txState # "none"
    /\ pc \notin {"idle", "readfile", "begin", "nextfile", "unmarshal"}
    /\ call.entry = "LoadFiles" => fileIdx >= 1

C11_NoStatementBeforeYamlFailure ==
    /\ DocumentRejected => result = PlainError("yaml")
    /\ result = PlainError("yaml") => log = <<>>

(***************************************************************************)
(* C11 (amended): a document that fails to deserialise makes the call      *)
(* return a failure and no statement of that document is executed; under   *)
(* Load and LoadFile the call has executed no statement at all, under      *)
(* LoadFiles the statements of the earlier files have been executed, all   *)
(* successfully, and the call returns with the database as it was.         *)
(***************************************************************************)
C11_NoStatementOfRejectedDocument ==
    /\ DocumentRejected => result = PlainError("yaml")
    /\ result = PlainError("yaml") =>
          /\ DocumentRejected
          /\ call.entry # "LoadFiles" => log = <<>>
          /\ \A j \in 1..Len(log) : log[j].file < fileIdx /\ log[j].ok
          /\ pc = "returned" => db = dbBefore /\ txState = "rolledback"

\* LoadFiles met a malformed second file after statements of the first one
C11_Witness ==
    /\ pc = "returned"
    /\ call.entry = "LoadFiles"
    /\ result = PlainError("yaml")
    /\ fileIdx = 2
    /\ \E j \in 1..Len(log) : log[j].kind = "INSERT" /\ log[j].ok
    /\ db = dbBefore

(***************************************************************************)
(* Columns and arguments of a statement, read off the fixture row          *)
(***************************************************************************)
\* names in strictly ascending lexicographic order
Lexicographic(names) ==
    \A a, b \in 1..Len(names) :
        a < b => \E x, y \in 1..Len(Alphabet) :
                    x < y /\ Alphabet[x] = names[a] /\ Alphabet[y] = names[b]

IsInsertNow(v) == v = StrV(<<"ON_INSERT_NOW()">>)
IsUpdateNow(v) == v = StrV(<<"ON_UPDATE_NOW()">>)

\* the key PK_REFERENCE(name) stands for at statement k: the latest one generated
BoundKey(k, name) ==
    IF \E j \in 1..(k - 1) : LatestBefore(j, k) /\ log[j].name = name
    THEN IntV(log[CHOOSE j \in 1..(k - 1) :
                      LatestBefore(j, k) /\ log[j].name = name].ret)
    ELSE Nil

\* the argument position p of statement k must carry for the document value v
ArgFor(k, p, v) ==
    IF IsInsertNow(v) \/ IsUpdateNow(v) THEN TimeNow
    ELSE IF IsReferenceMarker(v)
    THEN IF log[k].raw[p].k = "ref" THEN BoundKey(k, log[k].raw[p].s[1])
         ELSE [k |-> "uncompiled", n |-> 0, s |-> <<>>]    \* no argument is this
    ELSE v

(***************************************************************************)
(* C13: on the Insert path the INSERT lists the primary-key columns in     *)
(* lexicographic order, then the field insert columns in lexicographic     *)
(* order, and its arguments are the resolved primary-key values followed   *)
(* by the resolved insert values, each at the position of its column.      *)
(***************************************************************************)
C13_InsertColumnsAndArguments ==
    \A j \in 1..Len(log) :
        (log[j].kind = "INSERT" /\ log[j].path = "existence") =>
            LET e == log[j]
                spec == RowAt(e.file, e.row)
                n == Len(e.cols)
                pk == Cardinality(DOMAIN spec.PK)
                names == [q \in 1..n |-> e.cols[q].name]
                flag == call.SetUpdatedAtOnInsert
            IN  /\ Len(e.args) = n
                /\ pk <= n
                /\ \A q \in 1..n : e.cols[q].quoted
                /\ {names[q] : q \in 1..pk} = DOMAIN spec.PK
                /\ Lexicographic(SubSeq(names, 1, pk))
                /\ {names[q] : q \in (pk + 1)..n} =
                       {c \in DOMAIN spec.Fields : IsUpdateNow(spec.Fields[c]) => flag}
                /\ Lexicographic(SubSeq(names, pk + 1, n))
                /\ \A q \in 1..pk : e.args[q] = ArgFor(j, q, spec.PK[names[q]])
                /\ \A q \in (pk + 1)..n :
                      e.args[q] = ArgFor(j, q, spec.Fields[names[q]])

\* an INSERT of a literal key, a resolved reference and a timestamp was executed
C13_Witness ==
    \E j \in 1..Len(log) :
        /\ log[j].kind = "INSERT"
        /\ log[j].path = "existence"
        /\ log[j].ok
        /\ Len(log[j].cols) = 3
        /\ \E q \in 2..3 : log[j].raw[q].k = "ref" /\ log[j].args[q].k = "int"
        /\ log[j].args[1].k = "int"

(***************************************************************************)
(* C14: in a compiled row an ON_INSERT_NOW() field is an insert column and *)
(* never an update column; an ON_UPDATE_NOW() field is an update column,   *)
(* and an insert column exactly when set-updated-at-on-insert is on; every *)
(* other field is both an insert and an update column.                     *)
(***************************************************************************)
Among(columns, c) == \E q \in 1..Len(columns) : columns[q] = c

\* the row loop is past row.Init of rows[i + 1]
Compiled == pc \in {"geninsert", "lastinsertid", "select", "insert", "update",
                    "seqname", "setval"}

C14_TimestampFieldsAreClassified ==
    Compiled =>
        LET spec == rows[i + 1]
            flag == call.SetUpdatedAtOnInsert
        IN  \A c \in DOMAIN spec.Fields :
                LET v == spec.Fields[c]
                IN  /\ IsInsertNow(v) => /\ Among(row.insertColumns, c)
                                         /\ ~ Among(row.updateColumns, c)
                    /\ IsUpdateNow(v) => /\ Among(row.updateColumns, c)
                                         /\ Among(row.insertColumns, c) <=> flag
                    /\ (~ IsInsertNow(v) /\ ~ IsUpdateNow(v)) =>
                          /\ Among(row.insertColumns, c)
                          /\ Among(row.updateColumns, c)

\* a row with an ON_UPDATE_NOW() field and a reference is compiled, flag on
C14_Witness ==
    /\ Compiled
    /\ call.SetUpdatedAtOnInsert
    /\ \E c, d \in DOMAIN rows[i + 1].Fields :
          /\ IsUpdateNow(rows[i + 1].Fields[c])
          /\ Among(row.insertColumns, c)
          /\ IsReferenceMarker(rows[i + 1].Fields[d])
          /\ Among(row.updateColumns, d)

(***************************************************************************)
(* C15: on the Update path the UPDATE sets the update columns in           *)
(* lexicographic order and its arguments are the resolved update values in *)
(* that order followed by the resolved primary-key values in lexicographic *)
(* column order, argument i standing at placeholder i.                     *)
(***************************************************************************)
C15_UpdateArgumentsFollowColumns ==
    \A j \in 1..Len(log) :
        log[j].kind = "UPDATE" =>
            LET e == log[j]
                spec == RowAt(e.file, e.row)
                u == Len(e.set)
                w == Len(e.where)
                setNames == [q \in 1..u |-> e.set[q].col.name]
                whereNames == [q \in 1..w |-> e.where[q].col.name]
            IN  /\ Len(e.args) = u + w
                /\ {setNames[q] : q \in 1..u} =
                       {c \in DOMAIN spec.Fields : ~ IsInsertNow(spec.Fields[c])}
                /\ Lexicographic(setNames)
                /\ {whereNames[q] : q \in 1..w} = DOMAIN spec.PK
                /\ Lexicographic(whereNames)
                /\ \A q \in 1..u :
                      /\ e.args[q] = ArgFor(j, q, spec.Fields[setNames[q]])
                      /\ call.driver = "postgres" => e.set[q].ph.n = q
                /\ \A q \in 1..w :
                      /\ e.args[u + q] = ArgFor(j, u + q, spec.PK[whereNames[q]])
                      /\ call.driver = "postgres" => e.where[q].ph.n = u + q

\* an UPDATE of two columns, one a resolved reference, was executed
C15_Witness ==
    \E j \in 1..Len(log) :
        /\ log[j].kind = "UPDATE"
        /\ log[j].ok
        /\ Len(log[j].set) = 2
        /\ Len(log[j].where) = 1
        /\ log[j].raw[1].k = "ref"
        /\ log[j].args[1].k = "int"
        /\ log[j].args[3] = IntV(1)

(***************************************************************************)
(* C16: a row whose primary-key spec has two or more columns never takes   *)
(* the Generated-Insert path, even when one of them holds PK_GENERATE: its *)
(* statements start with the existence check, it never writes the          *)
(* registry, and every primary-key argument bound to its SELECT, INSERT or *)
(* UPDATE is a plain scalar, never an unresolved generator marker.         *)
(***************************************************************************)
\* the positions of statement e that carry primary-key values
KeyPositions(e) ==
    IF e.kind = "SELECT" THEN 1..Len(e.args)
    ELSE IF e.kind = "INSERT" THEN 1..Cardinality(DOMAIN RowAt(e.file, e.row).PK)
    ELSE IF e.kind = "UPDATE" THEN (Len(e.set) + 1)..Len(e.args)
    ELSE {}

CompositeKeyTakesExistencePath ==
    \A j \in 1..Len(log) :
        Cardinality(DOMAIN RowAt(log[j].file, log[j].row).PK) >= 2 =>
            /\ log[j].path = "existence"
            /\ \E k \in StatementsOf(log, log[j].file, log[j].row, {"SELECT"}) :
                  \A m \in StatementsOf(log, log[j].file, log[j].row,
                                        {"INSERT", "UPDATE", "SEQNAME", "SETVAL"}) : k < m

C16_CompositeKeyBindsScalars ==
    /\ CompositeKeyTakesExistencePath
    /\ \A j \in 1..Len(log) :
          Cardinality(DOMAIN RowAt(log[j].file, log[j].row).PK) >= 2 =>
              \A p \in KeyPositions(log[j]) : log[j].args[p].k \in {"int", "str"}

(***************************************************************************)
(* C17: on the Insert path the sequence of column id is resynchronised     *)
(* after the INSERT exactly when the driver is postgres and the row's      *)
(* lexicographically first primary-key column is named id; never under     *)
(* another driver and never on the Generated-Insert path.                  *)
(***************************************************************************)
\* statement j is followed at once by the resynchronisation for its row
ResyncAfter(j) ==
    \/ j = Len(log) /\ pc = "seqname"
    \/ /\ j < Len(log)
       /\ log[j + 1].kind = "SEQNAME"
       /\ log[j + 1].file = log[j].file
       /\ log[j + 1].row = log[j].row
       /\ log[j + 1].args = <<StrV(<<log[j].table>>), StrV(<<"id">>)>>

FirstKeyIsId(spec) ==
    /\ "id" \in DOMAIN spec.PK
    /\ \A c \in DOMAIN spec.PK : c = "id" \/ Lexicographic(<<"id", c>>)

C17_ResyncAfterInsertOfIdKey ==
    /\ \A j \in 1..Len(log) :
          LET spec == RowAt(log[j].file, log[j].row)
          IN  /\ (log[j].kind = "INSERT" /\ log[j].path = "existence") =>
                    ResyncAfter(j) <=> /\ log[j].ok
                                       /\ call.driver = "postgres"
                                       /\ FirstKeyIsId(spec)
              /\ log[j].path = "generated" =>
                    /\ ~ ResyncAfter(j)
                    /\ StatementsOf(log, log[j].file, log[j].row,
                                    {"SEQNAME", "SETVAL"}) = {}
    /\ call.driver # "postgres" =>
          /\ pc \notin {"seqname", "setval"}
          /\ \A j \in 1..Len(log) : log[j].kind \notin {"SEQNAME", "SETVAL"}

\* one batch: an INSERT with key column id resynchronised, one with another key not
C17_Witness ==
    /\ call.driver = "postgres"
    /\ \E j, k \in 1..Len(log) :
          /\ log[j].kind = "INSERT" /\ log[j].path = "existence" /\ log[j].ok
          /\ FirstKeyIsId(RowAt(log[j].file, log[j].row))
          /\ j < Len(log)
          /\ ResyncAfter(j)
          /\ log[k].kind = "INSERT" /\ log[k].path = "existence" /\ log[k].ok
          /\ ~ FirstKeyIsId(RowAt(log[k].file, log[k].row))
          /\ ~ ResyncAfter(k)
          /\ k < Len(log)

(***************************************************************************)
(* C18: on the Update path under postgres the sequence of column id is     *)
(* resynchronised after the UPDATE whenever the updated row's primary key  *)
(* is the column id, by the rule of the Insert path.                       *)
(***************************************************************************)
C18_ResyncAfterUpdateOfIdKey ==
    \A j \in 1..Len(log) :
        (/\ log[j].kind = "UPDATE"
         /\ log[j].ok
         /\ call.driver = "postgres"
         /\ FirstKeyIsId(RowAt(log[j].file, log[j].row))) => ResyncAfter(j)

(***************************************************************************)
(* C19: the resynchronisation first asks for the sequence name of the      *)
(* table's id column.  With no sequence no further statement is executed   *)
(* and the row succeeds; with a sequence exactly one setval statement      *)
(* follows; if either statement fails the row fails with a processing      *)
(* error carrying its 1-based index and the batch ends there.              *)
(***************************************************************************)
\* the statements of the row of statement j that come after j
LaterOfRow(j) ==
    {m \in StatementsOf(log, log[j].file, log[j].row,
                        {"SELECT", "INSERT", "UPDATE", "SEQNAME", "SETVAL"}) : m > j}

\* the batch ended with the failure of statement j
AbortedAt(j, cause) ==
    /\ j = Len(log)
    /\ pc \in {"defer", "returned"}
    /\ result = NewProcessingError(log[j].row, cause)
    /\ log[j].row = i + 1
    /\ pc = "returned" => db = dbBefore

C19_ResyncAsksThenSets ==
    \A j \in 1..Len(log) :
        /\ log[j].kind = "SEQNAME" =>
              /\ j > 1 /\ log[j - 1].kind \in {"INSERT", "UPDATE"} /\ log[j - 1].ok
              /\ (log[j].ok /\ log[j].ret = 0) =>
                    /\ LaterOfRow(j) = {}
                    /\ Finished(log[j].file, log[j].row)
                    /\ j = Len(log) => result.kind # "processing"
              /\ (log[j].ok /\ log[j].ret = 1) =>
                    IF j = Len(log) THEN pc = "setval"
                    ELSE /\ LaterOfRow(j) = {j + 1}
                         /\ log[j + 1].kind = "SETVAL"
              /\ ~ log[j].ok => AbortedAt(j, "seqname")
        /\ log[j].kind = "SETVAL" =>
              /\ j > 1 /\ log[j - 1].kind = "SEQNAME"
              /\ log[j - 1].ok /\ log[j - 1].ret = 1
              /\ LaterOfRow(j) = {}
              /\ log[j].cols = <<Quoted("id")>>
              /\ log[j].ok => Finished(log[j].file, log[j].row)
              /\ ~ log[j].ok => AbortedAt(j, "setval")

\* one batch: a row without a sequence went through, a later row's setval failed
C19_Witness ==
    \E j, k \in 1..Len(log) :
        /\ log[j].kind = "SEQNAME" /\ log[j].ok /\ log[j].ret = 0
        /\ j < k
        /\ log[k].kind = "SETVAL" /\ ~ log[k].ok
        /\ log[k].row = 2
        /\ AbortedAt(k, "setval")
        /\ pc = "returned"

(***************************************************************************)
(* C20: a key name may be written twice and the last write wins.  With two *)
(* PK_GENERATE(name) rows in one batch the second insert succeeds and      *)
(* replaces the registry entry: a PK_REFERENCE(name) bound between the two *)
(* inserts carries the first key, one bound after the second insert (and   *)
(* before any further one) carries the second key.                         *)
(***************************************************************************)
\* generated INSERTs j1 < j2 under one name with none under that name between
Consecutive(j1, j2) ==
    /\ GenDone(j1)
    /\ GenDone(j2)
    /\ log[j1].name = log[j2].name
    /\ LatestBefore(j1, j2)

C20_SecondWriteReplacesFirst ==
    \A j1, j2 \in 1..Len(log) :
        Consecutive(j1, j2) =>
            /\ \A k \in (j1 + 1)..j2 : \A p \in 1..Len(log[k].raw) :
                  RefersTo(k, p, log[j1].name) => log[k].args[p] = IntV(log[j1].ret)
            /\ \A k \in (j2 + 1)..Len(log) : \A p \in 1..Len(log[k].raw) :
                  (LatestBefore(j2, k) /\ RefersTo(k, p, log[j2].name))
                      => log[k].args[p] = IntV(log[j2].ret)
            /\ LatestBefore(j2, Len(log) + 1) =>
                  /\ log[j2].name \in DOMAIN primaryKeys
                  /\ primaryKeys[log[j2].name] = IntV(log[j2].ret)

\* generate, reference, generate again, reference again: two different keys bound
C20_Witness ==
    \E j1, k1, j2, k2 \in 1..Len(log) :
        /\ Consecutive(j1, j2)
        /\ j1 < k1 /\ k1 < j2 /\ j2 < k2
        /\ log[j1].ret # log[j2].ret
        /\ log[k1].ok /\ log[k2].ok
        /\ RefersTo(k1, 1, log[j1].name) /\ log[k1].args[1] = IntV(log[j1].ret)
        /\ RefersTo(k2, 1, log[j2].name) /\ log[k2].args[1] = IntV(log[j2].ret)
        /\ primaryKeys[log[j2].name] = IntV(log[j2].ret)

(***************************************************************************)
(* C12: two independent Load calls, however their steps interleave, share  *)
(* neither a key registry nor a transaction: each call starts with an      *)
(* empty registry, its registry holds only keys of its own generated       *)
(* inserts, and each PK_REFERENCE it binds carries its own latest key for  *)
(* the name (nil when it generated none), never a key of the other call.   *)
(***************************************************************************)
\* statement j of caller c is a generated INSERT whose key has been retrieved
OwnGenDone(c, j) ==
    /\ Inserted(loads[c].log, j)
    /\ ~ (j = Len(loads[c].log) /\ loads[c].result.cause = "lastinsertid")

\* the key caller c has for name at its statement k: its latest one, or nil
OwnKey(c, k, name) ==
    LET gens == {j \in 1..(k - 1) : OwnGenDone(c, j) /\ loads[c].log[j].name = name}
    IN  IF gens = {} THEN Nil
        ELSE IntV(loads[c].log[CHOOSE j \in gens : \A m \in gens : m <= j].ret)

C12_LoadsShareNothing ==
    \A c \in Callers :
        LET l == loads[c]
            m == l.ctx.primaryKeys
        IN  l.ctx # NoContext =>
                /\ \A d \in Callers \ {c} :
                      /\ loads[d].ctx.primaryKeys # m
                      /\ loads[d].ctx.tx # l.ctx.tx
                /\ l.log = <<>> => heap[m] = EmptyRegistry
                /\ \A name \in DOMAIN heap[m] :
                      /\ heap[m][name] # Nil
                      /\ heap[m][name] = OwnKey(c, Len(l.log) + 1, name)
                /\ \A k \in 1..Len(l.log) : \A p \in 1..Len(l.log[k].raw) :
                      l.log[k].raw[p].k = "ref" =>
                          l.log[k].args[p] = OwnKey(c, k, l.log[k].raw[p].s[1])

\* both calls in progress at once, each having bound the key it generated itself
C12_Witness ==
    /\ \A c \in Callers :
          /\ loads[c].pc = "rowloop"
          /\ txs[loads[c].ctx.tx].state = "active"
          /\ Len(loads[c].log) = 3
          /\ OwnGenDone(c, 1)
          /\ loads[c].log[3].kind = "INSERT" /\ loads[c].log[3].ok
          /\ loads[c].log[3].raw[1].k = "ref"
          /\ loads[c].log[3].args[1] = IntV(loads[c].log[1].ret)
    /\ loads["A"].log[1].ret # loads["B"].log[1].ret
    /\ heap[loads["A"].ctx.primaryKeys] # heap[loads["B"].ctx.primaryKeys]

(***************************************************************************)
(* C21: every row takes exactly one path: the generated INSERT alone, or   *)
(* the existence SELECT followed by at most one of INSERT and UPDATE (by   *)
(* neither on the no-op path).  The SELECT comes before the INSERT or      *)
(* UPDATE of its row, no row executes both, a failed statement ends the    *)
(* batch, and the statements of a row all come before those of the next.   *)
(***************************************************************************)
SameRow(a, b) == a.file = b.file /\ a.row = b.row

\* statement b belongs to a row after the row of statement a
LaterRow(a, b) == a.file < b.file \/ (a.file = b.file /\ a.row < b.row)

\* statement a may be the last one of its row, the row going on to Done
EndsRow(a) ==
    /\ a.ok
    /\ a.kind = "SELECT" => a.ret > 0 /\ UpdateLengthAt(a.file, a.row) = 0

\* statement b may follow statement a within one row
StepOfRow(a, b) ==
    /\ a.ok
    /\ a.path = "existence"
    /\ b.path = "existence"
    /\ \/ a.kind = "SELECT" /\ b.kind \in {"INSERT", "UPDATE"}
       \/ a.kind \in {"INSERT", "UPDATE"} /\ b.kind = "SEQNAME"
       \/ a.kind = "SEQNAME" /\ b.kind = "SETVAL"

\* statement b may be the first one of its row
StartsRow(b) ==
    \/ b.kind = "INSERT" /\ b.path = "generated"
    \/ b.kind = "SELECT"

C21_RowsFollowOnePath ==
    /\ Len(log) > 0 => StartsRow(log[1])
    /\ \A j \in 1..(Len(log) - 1) :
          \/ SameRow(log[j], log[j + 1]) /\ StepOfRow(log[j], log[j + 1])
          \/ /\ LaterRow(log[j], log[j + 1])
             /\ EndsRow(log[j])
             /\ StartsRow(log[j + 1])
    /\ (Len(log) > 0 /\ pc \in {"rowloop", "nextfile", "commit"}) =>
          EndsRow(log[Len(log)])

\* a batch of a generated row and an updated row, after one that inserted the latter
C21_Witness ==
    /\ pc = "returned"
    /\ result = NoError
    /\ Len(history) = 1
    /\ \E j \in 1..Len(history[1].log) :
          history[1].log[j].kind = "INSERT" /\ history[1].log[j].path = "existence"
    /\ Len(log) = 3
    /\ log[1].kind = "INSERT" /\ log[1].path = "generated"
    /\ log[2].kind = "SELECT" /\ log[2].row = 2
    /\ log[3].kind = "UPDATE" /\ log[3].row = 2

(***************************************************************************)
(* C22: every generated INSERT, existence SELECT, INSERT and UPDATE, under *)
(* every driver, has as many placeholders in its text as arguments bound   *)
(* to it; under postgres the placeholder numbers are exactly 1..n, each    *)
(* used once, n being the number of arguments.                             *)
(***************************************************************************)
C22_PlaceholdersCountArguments ==
    \A j \in 1..Len(log) :
        log[j].kind \in {"INSERT", "SELECT", "UPDATE"} =>
            LET phs == PlaceholdersOf(log[j])
                n == Len(log[j].args)
            IN  /\ Len(phs) = n
                /\ log[j].kind = "INSERT" => Len(log[j].cols) = n
                /\ call.driver = "postgres" =>
                      /\ {phs[q].n : q \in 1..Len(phs)} = 1..n
                      /\ \A a, b \in 1..Len(phs) : phs[a].n = phs[b].n => a = b
                      /\ \A q \in 1..Len(phs) : phs[q].sym = "$"
                /\ call.driver # "postgres" =>
                      \A q \in 1..Len(phs) : phs[q].sym = "?"

\* under mysql a generated INSERT of one argument and an INSERT of three were executed
C22_Witness ==
    /\ call.driver = "mysql"
    /\ \E j, k \in 1..Len(log) :
          /\ log[j].kind = "INSERT" /\ log[j].path = "generated" /\ log[j].ok
          /\ Len(log[j].args) = 1 /\ Len(PlaceholdersOf(log[j])) = 1
          /\ log[k].kind = "INSERT" /\ log[k].path = "existence" /\ log[k].ok
          /\ Len(log[k].args) = 3 /\ Len(PlaceholdersOf(log[k])) = 3

(***************************************************************************)
(* C23: during a batch the registry changes only in the step that          *)
(* completes a successful generated insert, where the name of that row     *)
(* gets the key just returned; the existence-check path, the sequence      *)
(* resynchronisation and a generated insert whose statement or key         *)
(* retrieval fails leave every entry as it was, and no entry is removed.   *)
(***************************************************************************)
\* this step completes a generated insert: its key is now retrieved
CompletesGeneratedInsert ==
    /\ \/ pc = "geninsert" /\ call.driver = "postgres"
       \/ pc = "lastinsertid"
    /\ pc' = "rowloop"
    /\ i' = i + 1
    /\ result' = result
    /\ Inserted(log', Len(log'))

C23_RegistryWrittenOnlyByGeneratedInsert ==
    [][pc # "returned" =>
          /\ DOMAIN primaryKeys \subseteq DOMAIN primaryKeys'
          /\ primaryKeys' # primaryKeys => CompletesGeneratedInsert
          /\ CompletesGeneratedInsert =>
                LET e == log'[Len(log')]
                IN  /\ DOMAIN primaryKeys' = DOMAIN primaryKeys \cup {e.name}
                    /\ primaryKeys'[e.name] = IntV(e.ret)
                    /\ \A x \in DOMAIN primaryKeys :
                          x # e.name => primaryKeys'[x] = primaryKeys[x]
      ]_vars

\* the key of a generated insert is still the entry after an existence-path
\* INSERT and a later generated insert that failed
C23_Witness ==
    /\ pc = "returned"
    /\ result.kind = "processing"
    /\ \E j, k \in 1..Len(log) :
          /\ GenDone(j)
          /\ j < k
          /\ log[k].kind = "INSERT" /\ log[k].path = "existence" /\ log[k].ok
          /\ k < Len(log)
          /\ log[Len(log)].path = "generated"
          /\ ~ GenDone(Len(log))
          /\ DOMAIN primaryKeys = {log[j].name}
          /\ primaryKeys[log[j].name] = IntV(log[j].ret)

(***************************************************************************)
(* C24: PK_GENERATE(name) is a marker only in the primary-key spec.  As a  *)
(* field value the same string is a literal: it is bound unchanged as      *)
(* insert and update argument, does not select the Generated-Insert path   *)
(* and never writes the registry.  PK_REFERENCE(name) is a marker both in  *)
(* the primary-key spec and in field values.                               *)
(***************************************************************************)
\* the document values behind the argument positions of statement e, with
\* whether the position is a primary-key one
ValuesBound(e) ==
    LET spec == RowAt(e.file, e.row)
        key(c) == [pk |-> TRUE, v |-> spec.PK[c]]
        field(c) == [pk |-> FALSE, v |-> spec.Fields[c]]
        pks == Cardinality(DOMAIN spec.PK)
    IN  IF e.kind = "SELECT"
        THEN [q \in 1..Len(e.where) |-> key(e.where[q].col.name)]
        ELSE IF e.kind = "UPDATE"
        THEN [q \in 1..Len(e.set) |-> field(e.set[q].col.name)]
             \o [q \in 1..Len(e.where) |-> key(e.where[q].col.name)]
        ELSE IF e.kind = "INSERT" /\ e.path = "generated"
        THEN [q \in 1..Len(e.cols) |-> field(e.cols[q].name)]
        ELSE IF e.kind = "INSERT"
        THEN [q \in 1..Len(e.cols) |->
                 IF q <= pks THEN key(e.cols[q].name) ELSE field(e.cols[q].name)]
        ELSE <<>>

C24_GenerateIsAMarkerOnlyInTheKey ==
    /\ \A j \in 1..Len(log) :
          LET e == log[j]
              bound == ValuesBound(e)
          IN  /\ e.path = "generated" <=> HasGeneratedKey(RowAt(e.file, e.row))
              /\ \A q \in 1..Len(bound) :
                    /\ (IsGenerateMarker(bound[q].v) /\ ~ bound[q].pk) =>
                          /\ e.raw[q] = bound[q].v
                          /\ e.args[q] = bound[q].v
                    /\ IsReferenceMarker(bound[q].v) =>
                          /\ e.raw[q].k = "ref"
                          /\ e.args[q].k \in {"int", "nil"}
    /\ \A name \in DOMAIN primaryKeys :
          \E j \in 1..Len(log) :
              /\ GenDone(j)
              /\ log[j].name = name
              /\ HasGeneratedKey(RowAt(log[j].file, log[j].row))

\* a row with the field value PK_GENERATE(a) was inserted, then updated, the
\* string bound both times and the registry left empty
C24_Witness ==
    /\ pc = "returned"
    /\ Len(history) = 1
    /\ primaryKeys = EmptyRegistry
    /\ \E j \in 1..Len(history[1].log) :
          /\ history[1].log[j].kind = "INSERT"
          /\ history[1].log[j].ok
          /\ Len(history[1].log[j].args) = 3
          /\ history[1].log[j].args[3] = StrV(<<"PK_GENERATE(", "a", ")">>)
    /\ \E j \in 1..Len(log) :
          /\ log[j].kind = "UPDATE"
          /\ log[j].ok
          /\ Len(log[j].args) = 3
          /\ log[j].args[2] = StrV(<<"PK_GENERATE(", "a", ")">>)

=============================================================================
